---- MODULE Spec2Model ----
(***************************************************************************)
(* A model of pyclingo: the term library (values, expressions, negation,   *)
(* pools, predicates, aggregates, choices, conditional literals) and the   *)
(* ASPProgram assembly layer.                                              *)
(*                                                                         *)
(* Rendered text is modelled as a sequence of tokens whose concatenation   *)
(* (Text) is the exact Python string; blanks are tokens of their own.      *)
(***************************************************************************)
EXTENDS Integers, Sequences, FiniteSets, TLC

VARIABLES
    expr,       \* SpecExpr: the Expression/Value object under construction
    text,       \* result of the last render() call on a term, or NotRendered
    subject,    \* SpecTerm, SpecNeg: the term object under construction
    error,      \* exception raised by the last call, or NoError
    base,       \* SpecNeg: the literal the negations are applied to
    history,    \* SpecNeg: the negations applied so far, innermost first
    program,    \* SpecProgram: the ASPProgram object
    output,     \* SpecProgram: result of the last program.render(), or NotRendered
    message,    \* SpecProgram: message of the exception raised by the last call
    rule_head,  \* SpecRule: head= of the Rule(...) call, or None
    rule_body,  \* SpecRule: body= of the Rule(...) call, or NoBody
    rule_object,\* SpecRule: the Rule object the call built, or None
    instance_a, \* SpecEq: the predicate instance on the left of ==, or None
    instance_b, \* SpecEq: the predicate instance on the right of ==, or None
    compared,   \* SpecEq: outcome of instance_a == instance_b, or None
    predicate_class,\* SpecDefine: the class returned by Predicate.define, or None
    puzzle,     \* SpecPuzzle: the Puzzle object with its modules, or None
    solver      \* SpecSolve: the program being solved, its generator and the engine behind it, or None

vars == <<expr, text, subject, error, base, history, program, output, message, rule_head, rule_body, rule_object, instance_a, instance_b, compared, predicate_class, puzzle, solver>>
exprVars == <<expr, text>>
termVars == <<subject, error>>
negVars == <<base, history>>
progVars == <<program, output, message>>
ruleVars == <<rule_head, rule_body, rule_object>>
eqVars == <<instance_a, instance_b, compared>>
classVars == <<predicate_class>>
puzzleVars == <<puzzle>>
solveVars == <<solver>>

None == [kind |-> "None"]   \* Python None where a term is expected
NoneOp == "None"            \* Python None where an Operation is expected
NotRendered == <<"<not rendered>">>
NoError == "NoError"
TypeError == "TypeError"
ValueError == "ValueError"
AssertionError == "AssertionError"
NoProgram == [kind |-> "None"]
NoMessage == <<>>

(***************************************************************************)
(* Bounds                                                                  *)
(***************************************************************************)
MaxOps == 3                 \* operators in one expression tree
VarNames == {"X", "Y", "Z"} \* variable names offered to the builders
IntValues == {2}            \* values of the integer constants that occur
EnvValues == {1, 2, 3}      \* values assigned to variables when evaluating
MaxSize == 5                \* nodes of a term that SpecTerm still builds upon
MaxElements == 2            \* element clauses of one Aggregate or Choice
MaxCalls == 5               \* negations applied to one literal in SpecNeg
MaxRules == 2               \* program elements held by the ASPProgram
MaxSegments == 2            \* segments present when add_segment is still offered

(***************************************************************************)
(* pyclingo/operators.py                                                   *)
(***************************************************************************)
ADD == "+"
SUBTRACT == "-"
MULTIPLY == "*"
INTEGER_DIVIDE == "/"
UNARY_MINUS == "unary-"
ABS == "abs"

UNARY_OPERATIONS == {UNARY_MINUS, ABS}
BINARY_OPERATIONS == {ADD, SUBTRACT, MULTIPLY, INTEGER_DIVIDE}

NONCOMMUTATIVE_OPERATIONS_NoSubtract == {INTEGER_DIVIDE}

\* operators.py spells the name NONCOMMUTATIVE_OPERATIONRS; expression.py
\* reads it as NONCOMMUTATIVE_OPERATIONS.
NONCOMMUTATIVE_OPERATIONS == {SUBTRACT, INTEGER_DIVIDE}

PRECEDENCE ==
    (UNARY_MINUS :> 0) @@ (MULTIPLY :> 1) @@ (INTEGER_DIVIDE :> 1)
        @@ (ADD :> 2) @@ (SUBTRACT :> 2)

(***************************************************************************)
(* pyclingo/value.py                                                       *)
(***************************************************************************)
Variable(name) == [kind |-> "Variable", name |-> name]
Constant(value) == [kind |-> "Constant", value |-> value]

Digit(d) == <<"0", "1", "2", "3", "4", "5", "6", "7", "8", "9">>[d + 1]

RECURSIVE StrNat(_)
StrNat(n) == IF n < 10 THEN Digit(n) ELSE StrNat(n \div 10) \o Digit(n % 10)

\* Python's str(int)
str(n) == IF n < 0 THEN "-" \o StrNat(0 - n) ELSE StrNat(n)

RECURSIVE Text(_)
\* the Python string a token sequence stands for
Text(tokens) == IF tokens = <<>> THEN "" ELSE Head(tokens) \o Text(Tail(tokens))

(***************************************************************************)
(* Strings that the code inspects character by character are sequences of  *)
(* one-character strings.                                                  *)
(***************************************************************************)
LetterPairs ==
    {<<"a", "A">>, <<"b", "B">>, <<"c", "C">>, <<"d", "D">>, <<"e", "E">>,
     <<"f", "F">>, <<"g", "G">>, <<"h", "H">>, <<"i", "I">>, <<"j", "J">>,
     <<"k", "K">>, <<"l", "L">>, <<"m", "M">>, <<"n", "N">>, <<"o", "O">>,
     <<"p", "P">>, <<"q", "Q">>, <<"r", "R">>, <<"s", "S">>, <<"t", "T">>,
     <<"u", "U">>, <<"v", "V">>, <<"w", "W">>, <<"x", "X">>, <<"y", "Y">>,
     <<"z", "Z">>}
Digits == {"0", "1", "2", "3", "4", "5", "6", "7", "8", "9"}

islower(c) == \E pair \in LetterPairs : pair[1] = c
isupper(c) == \E pair \in LetterPairs : pair[2] = c
isalpha(c) == islower(c) \/ isupper(c)
isalnum(c) == isalpha(c) \/ c \in Digits
char_lower(c) ==
    IF isupper(c) THEN (CHOOSE pair \in LetterPairs : pair[2] = c)[1] ELSE c
char_upper(c) ==
    IF islower(c) THEN (CHOOSE pair \in LetterPairs : pair[1] = c)[2] ELSE c

\* str.lower()
lower(chars) == [i \in 1..Len(chars) |-> char_lower(chars[i])]

\* str.title(): a letter is upper-cased when no letter precedes it
title(chars) ==
    [i \in 1..Len(chars) |->
        IF i = 1 \/ ~isalpha(chars[i - 1]) THEN char_upper(chars[i])
        ELSE char_lower(chars[i])]

(***************************************************************************)
(* pyclingo/expression.py                                                  *)
(***************************************************************************)
Expression(first_term, operator, second_term) ==
    [kind |-> "Expression", first_term |-> first_term,
     operator |-> operator, second_term |-> second_term]

Abs(term) == Expression(None, ABS, term)

IsValueOrExpression(t) == t.kind \in {"Variable", "Constant", "Expression"}

\* Expression.render, lines 163-188: the decision to wrap a binary
\* expression in parentheses, given its parent operator and side.
NeedsParentheses_NoDivSpecialCase(operator, parent_op, is_right_operand) ==
    IF parent_op = NoneOp THEN FALSE
    ELSE LET current_precedence == PRECEDENCE[operator]
             parent_precedence == PRECEDENCE[parent_op]
         IN  IF current_precedence < parent_precedence THEN TRUE
             ELSE IF current_precedence > parent_precedence THEN FALSE
             ELSE IF parent_op \in NONCOMMUTATIVE_OPERATIONS
                  THEN is_right_operand ELSE FALSE

NeedsParentheses(operator, parent_op, is_right_operand) ==
    IF parent_op = NoneOp THEN FALSE
    ELSE LET current_precedence == PRECEDENCE[operator]
             parent_precedence == PRECEDENCE[parent_op]
         IN  IF current_precedence < parent_precedence THEN TRUE
             ELSE IF current_precedence > parent_precedence THEN FALSE
             ELSE LET noncomm == IF parent_op \in NONCOMMUTATIVE_OPERATIONS
                                 THEN is_right_operand ELSE FALSE
                  IN  IF operator = INTEGER_DIVIDE /\ parent_op = MULTIPLY
                      THEN is_right_operand ELSE noncomm

(***************************************************************************)
(* The other node kinds: value.py, expression.py (Comparison), pool.py,    *)
(* predicate.py, aggregates.py, choice.py, negation.py,                    *)
(* conditional_literal.py.  Sequences stand for Python lists and tuples.   *)
(***************************************************************************)
StringConstant(value) == [kind |-> "StringConstant", value |-> value]
SymbolicConstant(value) == [kind |-> "SymbolicConstant", value |-> value]

EQUAL == "="
NOT_EQUAL == "!="

Comparison(left_term, operator, right_term) ==
    [kind |-> "Comparison", left_term |-> left_term,
     operator |-> operator, right_term |-> right_term]

\* the class built by make_dataclass(cls_name=name, ...) with _namespace and
\* _show set on it: a schema; the class name is given by its characters
make_dataclass(cls_name, fields, namespace, show) ==
    [cls_name |-> cls_name, fields |-> fields, namespace |-> namespace, show |-> show]

\* Predicate.define; name is given by its characters
define(name, fields, namespace, show) ==
    IF name = <<>> \/ ~islower(name[1])
    THEN [error |-> ValueError,
          message |-> <<"Predicate name must start with a lowercase letter: ", Text(name)>>,
          value |-> None]
    ELSE IF \E i \in 1..Len(name) : ~(isalnum(name[i]) \/ name[i] = "_")
    THEN [error |-> ValueError,
          message |-> <<"Predicate name can only contain letters, digits, and underscores: ",
                        Text(name)>>,
          value |-> None]
    ELSE [error |-> NoError, message |-> NoMessage,
          value |-> make_dataclass(name, fields, namespace, show)]

\* an instance of a schema; arguments in field order
Predicate(schema, arguments) ==
    [kind |-> "Predicate", schema |-> schema, arguments |-> arguments]

RangePool(start, end) == [kind |-> "RangePool", start |-> start, end |-> end]
ExplicitPool(elements) == [kind |-> "ExplicitPool", elements |-> elements]

\* Aggregate._elements: a list of (element_tuple, conditions)
Aggregate(aggregate_type, elements) ==
    [kind |-> "Aggregate", AGGREGATE_TYPE |-> aggregate_type, elements |-> elements]

\* Choice: _elements is a list of (element, conditions); unset bounds are None
Choice(elements, min_cardinality, max_cardinality) ==
    [kind |-> "Choice", elements |-> elements,
     min_cardinality |-> min_cardinality, max_cardinality |-> max_cardinality]

\* NegatedLiteral.__init__: the stored term
NegatedLiteral(kind, t) == [kind |-> kind, term |-> t]

IsInstance(t, kinds) == t.kind \in kinds
ValueKinds == {"Variable", "Constant", "StringConstant", "SymbolicConstant"}
ConstantBaseKinds == {"Constant", "StringConstant", "SymbolicConstant"}
NegatedLiteralKinds == {"DefaultNegation", "ClassicalNegation"}
PoolKinds == {"RangePool", "ExplicitPool"}

\* DefaultNegation.__init__ after the type check: not not not X -> not X
DefaultNegation_AlwaysWrap(t) == NegatedLiteral("DefaultNegation", t)

DefaultNegation(t) ==
    IF t.kind = "DefaultNegation"
    THEN LET inner_term == t.term
         IN  IF inner_term.kind = "DefaultNegation"
             THEN NegatedLiteral("DefaultNegation", inner_term.term)
             ELSE NegatedLiteral("DefaultNegation", t)
    ELSE NegatedLiteral("DefaultNegation", t)

\* Not(term)
Not(t) == DefaultNegation(t)

\* ClassicalNegation.__init__ after the type check: the object built is
\* always a ClassicalNegation, around term.term when term is one itself
ClassicalNegation(t) ==
    LET actual_term == IF t.kind = "ClassicalNegation" THEN t.term ELSE t
    IN  NegatedLiteral("ClassicalNegation", actual_term)

ConditionalLiteral(head, condition) ==
    [kind |-> "ConditionalLiteral", head |-> head, condition |-> condition]

\* Predicate.with_namespace: type(f"{namespace}_{cls.__name__}", (cls,),
\* {"_namespace": namespace}); the subclass inherits the fields and _show;
\* namespace is given by its characters
with_namespace(schema, namespace) ==
    [schema EXCEPT !.cls_name = namespace \o <<"_">> \o @,
                   !.namespace = Text(namespace)]

\* Predicate.get_name
get_name(schema) ==
    LET predicate_name == Text(lower(schema.cls_name))
    IN  IF schema.namespace # "" THEN schema.namespace \o "_" \o predicate_name
        ELSE predicate_name

RECURSIVE Join(_, _)
\* sep.join(parts) on token sequences
Join(parts, sep) ==
    IF parts = <<>> THEN <<>>
    ELSE IF Len(parts) = 1 THEN parts[1]
    ELSE parts[1] \o sep \o Join(Tail(parts), sep)

CommaSpace == <<",", " ">>
SemicolonSpace == <<";", " ">>

\* the cardinality part of Choice.render without the exact form: equal
\* bounds are written on both sides of the braces
Choice_cardinality_NoExactForm(has_min, has_max, min_str, max_str) ==
    [prefix |-> IF has_min THEN min_str \o <<" ">> ELSE <<>>,
     suffix |-> IF has_max THEN <<" ">> \o max_str ELSE <<>>]

\* the cardinality part of Choice.render: prefix and suffix of the braces.
\* A bound object is true whenever it is set: Value defines neither __bool__
\* nor __len__, so Constant(0) counts as set.
Choice_cardinality(has_min, has_max, min_str, max_str) ==
    [prefix |-> IF has_min /\ has_max
                THEN (IF min_str = max_str THEN <<>> ELSE min_str \o <<" ">>)
                ELSE IF has_min THEN min_str \o <<" ">> ELSE <<>>,
     suffix |-> IF has_min /\ has_max
                THEN (IF min_str = max_str THEN <<" ", "=", " ">> \o min_str
                      ELSE <<" ">> \o max_str)
                ELSE IF has_min THEN <<>>
                ELSE IF has_max THEN <<" ">> \o max_str ELSE <<>>]

\* the ABS branch with the outer parentheses of the UNARY_MINUS branch
Abs_render_ParenthesizedInOperation(inner, parent_op) ==
    LET e == <<"|">> \o inner \o <<"|">>
    IN  IF parent_op # NoneOp THEN <<"(">> \o e \o <<")">> ELSE e

\* Expression.render, the ABS branch: no parentheses, whatever the parent
Abs_render(inner, parent_op) == <<"|">> \o inner \o <<"|">>

RECURSIVE render(_, _, _)
\* Term.render of every node kind.  parent_op and is_right_operand are read
\* by Expression only.  The as_argument keyword of predicate.py,
\* negation.py, aggregates.py and choice.py and the context of the other
\* files select nothing here: no caller passes a non-default context.
render(t, parent_op, is_right_operand) ==
    LET plain(u) == render(u, NoneOp, FALSE)
        clause(element_tokens, conditions) ==
            IF conditions # <<>>
            THEN element_tokens \o <<" ", ":", " ">>
                 \o Join([i \in 1..Len(conditions) |-> plain(conditions[i])], CommaSpace)
            ELSE element_tokens
    IN
    IF t.kind = "Variable" THEN <<t.name>>
    ELSE IF t.kind = "Constant" THEN <<str(t.value)>>
    ELSE IF t.kind = "StringConstant" THEN <<"\"", t.value, "\"">>
    ELSE IF t.kind = "SymbolicConstant" THEN <<t.value>>
    ELSE IF t.kind = "Comparison"
         THEN plain(t.left_term) \o <<" ", t.operator, " ">> \o plain(t.right_term)
    ELSE IF t.kind = "Predicate"
         THEN IF t.arguments = <<>> THEN <<get_name(t.schema)>>
              ELSE <<get_name(t.schema), "(">>
                   \o Join([i \in 1..Len(t.arguments) |-> plain(t.arguments[i])], CommaSpace)
                   \o <<")">>
    ELSE IF t.kind = "RangePool" THEN plain(t.start) \o <<"..">> \o plain(t.end)
    ELSE IF t.kind = "ExplicitPool"
         THEN <<"(">>
              \o Join([i \in 1..Len(t.elements) |-> plain(t.elements[i])], SemicolonSpace)
              \o <<")">>
    ELSE IF t.kind = "Aggregate"
         THEN <<t.AGGREGATE_TYPE, "{">>
              \o Join([i \in 1..Len(t.elements) |->
                         clause(Join([j \in 1..Len(t.elements[i][1]) |->
                                         plain(t.elements[i][1][j])], CommaSpace),
                                t.elements[i][2])], SemicolonSpace)
              \o <<"}">>
    ELSE IF t.kind = "Choice"
         THEN LET min_str == IF t.min_cardinality # None
                             THEN plain(t.min_cardinality) ELSE <<>>
                  max_str == IF t.max_cardinality # None
                             THEN plain(t.max_cardinality) ELSE <<>>
                  prefix == Choice_cardinality(t.min_cardinality # None,
                                               t.max_cardinality # None,
                                               min_str, max_str).prefix
                  suffix == Choice_cardinality(t.min_cardinality # None,
                                               t.max_cardinality # None,
                                               min_str, max_str).suffix
              IN  prefix \o <<"{", " ">>
                  \o Join([i \in 1..Len(t.elements) |->
                             clause(plain(t.elements[i][1]), t.elements[i][2])],
                          SemicolonSpace)
                  \o <<" ", "}">> \o suffix
    ELSE IF t.kind = "DefaultNegation" THEN <<"not", " ">> \o plain(t.term)
    ELSE IF t.kind = "ClassicalNegation" THEN <<"-">> \o plain(t.term)
    ELSE IF t.kind = "ConditionalLiteral"
         THEN plain(t.head) \o <<" ", ":", " ">>
              \o Join([i \in 1..Len(t.condition) |-> plain(t.condition[i])], CommaSpace)
    ELSE IF t.operator = ABS
         THEN Abs_render(render(t.second_term, NoneOp, FALSE), parent_op)
    ELSE IF t.operator = UNARY_MINUS
         THEN LET e == <<"-">> \o render(t.second_term, t.operator, FALSE)
              IN  IF parent_op # NoneOp THEN <<"(">> \o e \o <<")">> ELSE e
    ELSE LET first_str == render(t.first_term, t.operator, FALSE)
             second_str == render(t.second_term, t.operator, TRUE)
             e == first_str \o <<" ", t.operator, " ">> \o second_str
         IN  IF NeedsParentheses(t.operator, parent_op, is_right_operand)
             THEN <<"(">> \o e \o <<")">> ELSE e

(***************************************************************************)
(* is_grounded of every node kind                                          *)
(***************************************************************************)
RECURSIVE is_grounded(_)

All(s, P(_)) == \A i \in 1..Len(s) : P(s[i])

\* Expression.is_grounded
Expression_is_grounded(t) ==
    IF t.operator \in UNARY_OPERATIONS THEN is_grounded(t.second_term)
    ELSE is_grounded(t.first_term) /\ is_grounded(t.second_term)

\* Comparison.is_grounded
Comparison_is_grounded(t) == is_grounded(t.left_term) /\ is_grounded(t.right_term)

\* Predicate.is_grounded
Predicate_is_grounded(t) == All(t.arguments, is_grounded)

\* Aggregate.is_grounded
Aggregate_is_grounded(t) ==
    \A i \in 1..Len(t.elements) :
        /\ All(t.elements[i][1], is_grounded)
        /\ All(t.elements[i][2], is_grounded)

Choice_is_grounded_IgnoringBounds(t) ==
    \A i \in 1..Len(t.elements) :
        /\ is_grounded(t.elements[i][1])
        /\ All(t.elements[i][2], is_grounded)

\* Choice.is_grounded; a Value is always truthy, so `if self.min_cardinality`
\* asks whether the bound is set
Choice_is_grounded(t) ==
    /\ \A i \in 1..Len(t.elements) :
          /\ is_grounded(t.elements[i][1])
          /\ All(t.elements[i][2], is_grounded)
    /\ ~(t.min_cardinality # None /\ ~is_grounded(t.min_cardinality))
    /\ ~(t.max_cardinality # None /\ ~is_grounded(t.max_cardinality))

\* ConditionalLiteral.is_grounded
ConditionalLiteral_is_grounded(t) ==
    is_grounded(t.head) /\ All(t.condition, is_grounded)

is_grounded(t) ==
    IF t.kind = "Variable" THEN FALSE
    ELSE IF t.kind \in ConstantBaseKinds THEN TRUE
    ELSE IF t.kind = "Expression" THEN Expression_is_grounded(t)
    ELSE IF t.kind = "Comparison" THEN Comparison_is_grounded(t)
    ELSE IF t.kind = "Predicate" THEN Predicate_is_grounded(t)
    ELSE IF t.kind \in PoolKinds THEN TRUE
    ELSE IF t.kind = "Aggregate" THEN Aggregate_is_grounded(t)
    ELSE IF t.kind = "Choice" THEN Choice_is_grounded(t)
    ELSE IF t.kind \in NegatedLiteralKinds THEN is_grounded(t.term)
    ELSE ConditionalLiteral_is_grounded(t)

(***************************************************************************)
(* The terms a node stores, as its constructor keeps them                  *)
(***************************************************************************)
Range(s) == {s[i] : i \in 1..Len(s)}

RECURSIVE Flatten(_)
Flatten(ss) == IF ss = <<>> THEN <<>> ELSE Head(ss) \o Flatten(Tail(ss))

StoredTermSeq(t) ==
    IF t.kind \in ValueKinds THEN <<>>
    ELSE IF t.kind = "Expression"
         THEN (IF t.first_term = None THEN <<>> ELSE <<t.first_term>>) \o <<t.second_term>>
    ELSE IF t.kind = "Comparison" THEN <<t.left_term, t.right_term>>
    ELSE IF t.kind = "Predicate" THEN t.arguments
    ELSE IF t.kind = "RangePool" THEN <<t.start, t.end>>
    ELSE IF t.kind = "ExplicitPool" THEN t.elements
    ELSE IF t.kind = "Aggregate"
         THEN Flatten([i \in 1..Len(t.elements) |-> t.elements[i][1] \o t.elements[i][2]])
    ELSE IF t.kind = "Choice"
         THEN Flatten([i \in 1..Len(t.elements) |->
                         <<t.elements[i][1]>> \o t.elements[i][2]])
              \o (IF t.min_cardinality = None THEN <<>> ELSE <<t.min_cardinality>>)
              \o (IF t.max_cardinality = None THEN <<>> ELSE <<t.max_cardinality>>)
    ELSE IF t.kind \in NegatedLiteralKinds THEN <<t.term>>
    ELSE <<t.head>> \o t.condition

StoredTerms(t) == Range(StoredTermSeq(t))

RECURSIVE ContainsVariable(_)
ContainsVariable(t) ==
    t.kind = "Variable" \/ \E c \in StoredTerms(t) : ContainsVariable(c)

RECURSIVE Size(_), SizeAll(_)
\* number of nodes of a term
Size(t) == 1 + SizeAll(StoredTermSeq(t))
SizeAll(ts) == IF ts = <<>> THEN 0 ELSE Size(Head(ts)) + SizeAll(Tail(ts))

(***************************************************************************)
(* Constructors and setters with their checks.  A call returns the object  *)
(* built or the exception raised.                                          *)
(***************************************************************************)
Raise(exception) == [error |-> exception, value |-> None]
Return(value) == [error |-> NoError, value |-> value]

\* a Python int passed where a term or an int is accepted
IntLiteral(n) == [kind |-> "int", value |-> n]

ExpressionKinds == ValueKinds \cup {"Expression", "int"}

\* Expression._convert_if_needed
_convert_if_needed(value) ==
    IF value.kind = "int" THEN Constant(value.value) ELSE value

\* Expression.__init__
Expression_init(first_term, operator, second_term) ==
    IF first_term # None /\ ~IsInstance(first_term, ExpressionKinds) THEN Raise(TypeError)
    ELSE IF ~IsInstance(second_term, ExpressionKinds) THEN Raise(TypeError)
    ELSE IF first_term = None /\ operator \notin UNARY_OPERATIONS THEN Raise(ValueError)
    ELSE IF first_term # None /\ operator \notin BINARY_OPERATIONS THEN Raise(ValueError)
    ELSE Return(Expression(IF first_term = None THEN None
                           ELSE _convert_if_needed(first_term),
                           operator, _convert_if_needed(second_term)))

\* Comparison.__init__
Comparison_init(left_term, operator, right_term) ==
    IF ~IsInstance(left_term, ExpressionKinds \cup {"Aggregate"}) THEN Raise(TypeError)
    ELSE IF ~IsInstance(right_term, ExpressionKinds \cup {"Aggregate"} \cup PoolKinds)
         THEN Raise(TypeError)
    ELSE IF IsInstance(right_term, PoolKinds) /\ operator # EQUAL THEN Raise(ValueError)
    ELSE IF IsInstance(right_term, PoolKinds) /\ left_term.kind # "Variable"
         THEN Raise(ValueError)
    ELSE Return(Comparison(_convert_if_needed(left_term), operator,
                           _convert_if_needed(right_term)))

\* Predicate.__post_init__
Predicate_post_init(schema, arguments) ==
    IF \E i \in 1..Len(arguments) :
          ~IsInstance(arguments[i],
                      ExpressionKinds \cup {"str", "Predicate"} \cup PoolKinds)
    THEN Raise(TypeError)
    ELSE Return(Predicate(schema,
                          [i \in 1..Len(arguments) |->
                             IF arguments[i].kind = "int" THEN Constant(arguments[i].value)
                             ELSE IF arguments[i].kind = "str"
                                  THEN StringConstant(arguments[i].value)
                             ELSE arguments[i]]))

\* RangePool.__init__
RangePool_init(start, end) ==
    LET s == _convert_if_needed(start)
        e == _convert_if_needed(end)
    IN  IF ~IsInstance(s, ConstantBaseKinds \cup {"Expression"}) THEN Raise(TypeError)
        ELSE IF s.kind = "Expression" /\ ~is_grounded(s) THEN Raise(ValueError)
        ELSE IF ~IsInstance(e, ConstantBaseKinds \cup {"Expression"}) THEN Raise(TypeError)
        ELSE IF e.kind = "Expression" /\ ~is_grounded(e) THEN Raise(ValueError)
        ELSE Return(RangePool(s, e))

\* ExplicitPool.__init__: the first offending element decides the exception
ExplicitPool_init(elements) ==
    LET bad(i) == \/ ~IsInstance(elements[i],
                                 ConstantBaseKinds \cup {"int", "Predicate"})
                  \/ (elements[i].kind = "Predicate" /\ ~is_grounded(elements[i]))
        offenders == {i \in 1..Len(elements) : bad(i)}
        first == CHOOSE i \in offenders : \A j \in offenders : i <= j
    IN  IF elements = <<>> THEN Raise(ValueError)
        ELSE IF offenders # {}
             THEN (IF elements[first].kind = "Predicate" THEN Raise(ValueError)
                   ELSE Raise(TypeError))
        ELSE Return(ExplicitPool([i \in 1..Len(elements) |->
                                    _convert_if_needed(elements[i])]))

ConditionKinds == {"Predicate", "Comparison"} \cup NegatedLiteralKinds

\* Aggregate.add on the element list of an aggregate
Aggregate_add(agg, element_tuple, conditions) ==
    IF \E i \in 1..Len(element_tuple) :
          ~IsInstance(element_tuple[i], ValueKinds \cup {"Predicate"})
    THEN Raise(TypeError)
    ELSE IF \E i \in 1..Len(conditions) : ~IsInstance(conditions[i], ConditionKinds)
    THEN Raise(TypeError)
    ELSE Return([agg EXCEPT !.elements = Append(@, <<element_tuple, conditions>>)])

\* Aggregate.__init__
Aggregate_init(aggregate_type, element_tuple, conditions) ==
    Aggregate_add(Aggregate(aggregate_type, <<>>), element_tuple, conditions)

\* Choice.add
Choice_add(choice, element, conditions) ==
    IF ~IsInstance(element, {"Predicate", "ClassicalNegation"}) THEN Raise(TypeError)
    ELSE IF \E i \in 1..Len(conditions) : ~IsInstance(conditions[i], ConditionKinds)
    THEN Raise(TypeError)
    ELSE Return([choice EXCEPT !.elements = Append(@, <<element, conditions>>)])

\* Choice.__init__
Choice_init(element, conditions) == Choice_add(Choice(<<>>, None, None), element, conditions)

\* Choice._validate_cardinality
_validate_cardinality(count) ==
    IF ~IsInstance(count, {"int"} \cup ValueKinds) THEN Raise(TypeError)
    ELSE IF count.kind = "StringConstant" THEN Raise(TypeError)
    ELSE IF count.kind = "int" /\ count.value < 0 THEN Raise(ValueError)
    ELSE Return(IF count.kind = "int" THEN Constant(count.value) ELSE count)

exactly_Overwriting(choice, count) ==
    LET validated == _validate_cardinality(count)
    IN  IF validated.error # NoError THEN validated
        ELSE Return([choice EXCEPT !.min_cardinality = validated.value,
                                   !.max_cardinality = validated.value])

\* Choice.exactly
exactly(choice, count) ==
    LET validated == _validate_cardinality(count)
    IN  IF validated.error # NoError THEN validated
        ELSE IF choice.min_cardinality # None \/ choice.max_cardinality # None
             THEN Raise(ValueError)
        ELSE Return([choice EXCEPT !.min_cardinality = validated.value,
                                   !.max_cardinality = validated.value])

\* Choice.at_least
at_least(choice, count) ==
    LET validated == _validate_cardinality(count)
    IN  IF validated.error # NoError THEN validated
        ELSE IF choice.min_cardinality # None THEN Raise(ValueError)
        ELSE Return([choice EXCEPT !.min_cardinality = validated.value])

\* Choice.at_most
at_most(choice, count) ==
    LET validated == _validate_cardinality(count)
    IN  IF validated.error # NoError THEN validated
        ELSE IF choice.max_cardinality # None THEN Raise(ValueError)
        ELSE Return([choice EXCEPT !.max_cardinality = validated.value])

\* DefaultNegation.__init__
DefaultNegation_init(t) ==
    IF ~IsInstance(t, ConditionKinds) THEN Raise(TypeError)
    ELSE Return(DefaultNegation(t))

\* ClassicalNegation.__init__
ClassicalNegation_init(t) ==
    IF ~IsInstance(t, {"Predicate", "ClassicalNegation"}) THEN Raise(TypeError)
    ELSE Return(ClassicalNegation(t))

\* ConditionalLiteral.__init__
ConditionalLiteral_init(head, condition) ==
    IF ~IsInstance(head, ConditionKinds) THEN Raise(TypeError)
    ELSE IF \E i \in 1..Len(condition) : ~IsInstance(condition[i], ConditionKinds)
    THEN Raise(TypeError)
    ELSE Return(ConditionalLiteral(head, condition))

(***************************************************************************)
(* Reading rendered arithmetic back: standard precedence (unary minus,     *)
(* then * and /, then + and -), binary operators associate to the left.    *)
(***************************************************************************)
IsBlank(tok) == tok = " "
Toks(tokens) == SelectSeq(tokens, LAMBDA tok : ~IsBlank(tok))

\* Python's int(str) on the decimal numerals that occur
int(s) == CHOOSE n \in 0..99 : str(n) = s

RECURSIVE ParseSum(_, _), ParseSumRest(_, _, _), ParseProduct(_, _)
RECURSIVE ParseProductRest(_, _, _), ParseUnary(_, _), ParseAtom(_, _)

ParseAtom(toks, p) ==
    IF toks[p] = "("
    THEN LET r == ParseSum(toks, p + 1) IN [t |-> r.t, p |-> r.p + 1]
    ELSE IF toks[p] = "|"
    THEN LET r == ParseSum(toks, p + 1) IN [t |-> Abs(r.t), p |-> r.p + 1]
    ELSE IF toks[p] \in VarNames
    THEN [t |-> Variable(toks[p]), p |-> p + 1]
    ELSE [t |-> Constant(int(toks[p])), p |-> p + 1]

ParseUnary(toks, p) ==
    IF toks[p] = "-"
    THEN LET r == ParseUnary(toks, p + 1)
         IN  [t |-> Expression(None, UNARY_MINUS, r.t), p |-> r.p]
    ELSE ParseAtom(toks, p)

ParseProductRest(toks, left, p) ==
    IF p <= Len(toks) /\ toks[p] \in {MULTIPLY, INTEGER_DIVIDE}
    THEN LET r == ParseUnary(toks, p + 1)
         IN  ParseProductRest(toks, Expression(left, toks[p], r.t), r.p)
    ELSE [t |-> left, p |-> p]

ParseProduct(toks, p) ==
    LET r == ParseUnary(toks, p) IN ParseProductRest(toks, r.t, r.p)

ParseSumRest(toks, left, p) ==
    IF p <= Len(toks) /\ toks[p] \in {ADD, SUBTRACT}
    THEN LET r == ParseProduct(toks, p + 1)
         IN  ParseSumRest(toks, Expression(left, toks[p], r.t), r.p)
    ELSE [t |-> left, p |-> p]

ParseSum(toks, p) ==
    LET r == ParseProduct(toks, p) IN ParseSumRest(toks, r.t, r.p)

Parse(tokens) == ParseSum(Toks(tokens), 1).t

\* integer division of the target language: truncation toward zero
TruncDiv(a, b) ==
    LET abs_a == IF a < 0 THEN 0 - a ELSE a
        abs_b == IF b < 0 THEN 0 - b ELSE b
        q == abs_a \div abs_b
    IN  IF (a < 0) # (b < 0) THEN 0 - q ELSE q

Undefined == [ok |-> FALSE, v |-> 0]
Defined(n) == [ok |-> TRUE, v |-> n]

RECURSIVE Eval(_, _)
\* value of an expression tree under an assignment of its variables;
\* a division by zero makes the whole expression undefined
Eval(t, env) ==
    IF t.kind = "Variable" THEN Defined(env[t.name])
    ELSE IF t.kind = "Constant" THEN Defined(t.value)
    ELSE LET b == Eval(t.second_term, env)
         IN  IF ~b.ok THEN Undefined
             ELSE IF t.operator = ABS
                  THEN Defined(IF b.v < 0 THEN 0 - b.v ELSE b.v)
             ELSE IF t.operator = UNARY_MINUS THEN Defined(0 - b.v)
             ELSE LET a == Eval(t.first_term, env)
                  IN  IF ~a.ok THEN Undefined
                      ELSE IF t.operator = ADD THEN Defined(a.v + b.v)
                      ELSE IF t.operator = SUBTRACT THEN Defined(a.v - b.v)
                      ELSE IF t.operator = MULTIPLY THEN Defined(a.v * b.v)
                      ELSE IF b.v = 0 THEN Undefined
                      ELSE Defined(TruncDiv(a.v, b.v))

Envs == [VarNames -> EnvValues]

RECURSIVE OpCount(_)
OpCount(t) ==
    IF t.kind # "Expression" THEN 0
    ELSE 1 + OpCount(t.second_term)
           + (IF t.first_term = None THEN 0 ELSE OpCount(t.first_term))

(***************************************************************************)
(* SpecExpr: building expressions with the operator methods and rendering  *)
(***************************************************************************)
Operands == {Variable(n) : n \in VarNames}
Constants == {Constant(n) : n \in IntValues}

InitExpr ==
    /\ expr \in Operands \cup Constants
    /\ text = NotRendered
    /\ subject = None
    /\ error = NoError
    /\ base = None
    /\ history = <<>>
    /\ program = NoProgram
    /\ output = NotRendered
    /\ message = NoMessage
    /\ rule_head = None
    /\ rule_body = <<>>
    /\ rule_object = None
    /\ instance_a = None
    /\ instance_b = None
    /\ compared = None
    /\ predicate_class = None
    /\ puzzle = None
    /\ solver = None

\* Value.__add__/__sub__/__mul__/__floordiv__, Expression.__add__/...
BinaryOp ==
    /\ OpCount(expr) < MaxOps
    /\ \E op \in BINARY_OPERATIONS, other \in Operands :
          expr' = Expression(expr, op, other)
    /\ text' = NotRendered
    /\ UNCHANGED <<termVars, negVars, progVars, ruleVars, eqVars, classVars, puzzleVars, solveVars>>

\* Value.__radd__/__rsub__/__rmul__/__rfloordiv__, Expression.__radd__/...
ReflectedBinaryOp ==
    /\ OpCount(expr) < MaxOps
    /\ \E op \in BINARY_OPERATIONS, other \in Operands :
          expr' = Expression(other, op, expr)
    /\ text' = NotRendered
    /\ UNCHANGED <<termVars, negVars, progVars, ruleVars, eqVars, classVars, puzzleVars, solveVars>>

\* Value.__neg__ / Expression.__neg__
NegOp ==
    /\ OpCount(expr) < MaxOps
    /\ expr' = Expression(None, UNARY_MINUS, expr)
    /\ text' = NotRendered
    /\ UNCHANGED <<termVars, negVars, progVars, ruleVars, eqVars, classVars, puzzleVars, solveVars>>

\* Abs(term)
AbsOp ==
    /\ OpCount(expr) < MaxOps
    /\ expr' = Abs(expr)
    /\ text' = NotRendered
    /\ UNCHANGED <<termVars, negVars, progVars, ruleVars, eqVars, classVars, puzzleVars, solveVars>>

\* expr.render()
RenderExpr ==
    /\ text = NotRendered
    /\ text' = render(expr, NoneOp, FALSE)
    /\ UNCHANGED <<expr, termVars, negVars, progVars, ruleVars, eqVars, classVars, puzzleVars, solveVars>>

NextExpr == BinaryOp \/ ReflectedBinaryOp \/ NegOp \/ AbsOp \/ RenderExpr

SpecExpr == InitExpr /\ [][NextExpr]_vars

(***************************************************************************)
(* Properties of expression rendering                                      *)
(***************************************************************************)
X == Variable("X")
Y == Variable("Y")
Z == Variable("Z")

Rendered == text # NotRendered
IsBinary(t) == t.kind = "Expression" /\ t.operator \in BINARY_OPERATIONS
Additive == {ADD, SUBTRACT}
Multiplicative == {MULTIPLY, INTEGER_DIVIDE}
SameLevel(child, parent) ==
    /\ IsBinary(child)
    /\ (child.operator \in Additive) = (parent.operator \in Additive)
Bare(t) == render(t, NoneOp, FALSE)
Parenthesized(t) == <<"(">> \o Bare(t) \o <<")">>
Infix(left_tokens, operator, right_tokens) ==
    left_tokens \o <<" ", operator, " ">> \o right_tokens
LeftOperand == render(expr.first_term, expr.operator, FALSE)
RightOperand == render(expr.second_term, expr.operator, TRUE)

\* C5: a same-precedence binary operand is parenthesized as the right-hand
\* operand of a subtraction or an integer division and never as a left-hand
\* operand; X - (Y - Z) renders "X - (Y - Z)", (X - Y) - Z renders
\* "X - Y - Z" and X + (Y - Z) renders "X + Y - Z".
Thm_C5_SamePrecedenceParens ==
    (Rendered /\ IsBinary(expr)) =>
        /\ (SameLevel(expr.second_term, expr)
              /\ expr.operator \in {SUBTRACT, INTEGER_DIVIDE})
           => text = Infix(LeftOperand, expr.operator, Parenthesized(expr.second_term))
        /\ SameLevel(expr.first_term, expr)
           => text = Infix(Bare(expr.first_term), expr.operator, RightOperand)
        /\ expr = Expression(X, SUBTRACT, Expression(Y, SUBTRACT, Z))
           => Text(text) = "X - (Y - Z)"
        /\ expr = Expression(Expression(X, SUBTRACT, Y), SUBTRACT, Z)
           => Text(text) = "X - Y - Z"
        /\ expr = Expression(X, ADD, Expression(Y, SUBTRACT, Z))
           => Text(text) = "X + Y - Z"

Wit_C5_RightSubtraction ==
    /\ expr = Expression(X, SUBTRACT, Expression(Y, SUBTRACT, Z))
    /\ Text(text) = "X - (Y - Z)"

\* C6: an additive operand of a multiplication or integer division is
\* parenthesized, a multiplicative operand of an addition or subtraction is
\* not; X * (Y + Z) renders "X * (Y + Z)" and X + Y * Z renders "X + Y * Z".
Claim_C6_LowerPrecedenceParens ==
    (Rendered /\ IsBinary(expr)) =>
        /\ (expr.operator \in Multiplicative /\ IsBinary(expr.second_term)
              /\ expr.second_term.operator \in Additive)
           => text = Infix(LeftOperand, expr.operator, Parenthesized(expr.second_term))
        /\ (expr.operator \in Multiplicative /\ IsBinary(expr.first_term)
              /\ expr.first_term.operator \in Additive)
           => text = Infix(Parenthesized(expr.first_term), expr.operator, RightOperand)
        /\ (expr.operator \in Additive /\ IsBinary(expr.second_term)
              /\ expr.second_term.operator \in Multiplicative)
           => text = Infix(LeftOperand, expr.operator, Bare(expr.second_term))
        /\ (expr.operator \in Additive /\ IsBinary(expr.first_term)
              /\ expr.first_term.operator \in Multiplicative)
           => text = Infix(Bare(expr.first_term), expr.operator, RightOperand)
        /\ expr = Expression(X, MULTIPLY, Expression(Y, ADD, Z))
           => Text(text) = "X * (Y + Z)"
        /\ expr = Expression(X, ADD, Expression(Y, MULTIPLY, Z))
           => Text(text) = "X + Y * Z"

\* C7: an integer division that is an operand of a multiplication is
\* parenthesized only as the right-hand operand; (X * Y) // Z renders
\* "X * Y / Z", X * (Y // Z) renders "X * (Y / Z)" and X * Y // Z * X
\* renders "X * Y / Z * X".
Thm_C7_DivisionInMultiplication ==
    (Rendered /\ IsBinary(expr)) =>
        /\ (expr.operator = MULTIPLY /\ IsBinary(expr.second_term)
              /\ expr.second_term.operator = INTEGER_DIVIDE)
           => text = Infix(LeftOperand, MULTIPLY, Parenthesized(expr.second_term))
        /\ (expr.operator = MULTIPLY /\ IsBinary(expr.first_term)
              /\ expr.first_term.operator = INTEGER_DIVIDE)
           => text = Infix(Bare(expr.first_term), MULTIPLY, RightOperand)
        /\ expr = Expression(Expression(X, MULTIPLY, Y), INTEGER_DIVIDE, Z)
           => Text(text) = "X * Y / Z"
        /\ expr = Expression(X, MULTIPLY, Expression(Y, INTEGER_DIVIDE, Z))
           => Text(text) = "X * (Y / Z)"
        /\ expr = Expression(Expression(Expression(X, MULTIPLY, Y), INTEGER_DIVIDE, Z),
                             MULTIPLY, X)
           => Text(text) = "X * Y / Z * X"

Wit_C7_DivisionRightOfMultiplication ==
    /\ expr = Expression(X, MULTIPLY, Expression(Y, INTEGER_DIVIDE, Z))
    /\ Text(text) = "X * (Y / Z)"

\* C8: reading the rendered text back with standard precedence and
\* left-to-right associativity gives an expression that evaluates like the
\* tree under every assignment of the variables.
Claim_C8_RoundTrip ==
    Rendered => \A env \in Envs : Eval(Parse(text), env) = Eval(expr, env)

(***************************************************************************)
(* SpecTerm: building terms of every kind around the current one, and the  *)
(* cardinality setters of a Choice                                         *)
(***************************************************************************)
P == define(<<"p">>, <<"a">>, "", TRUE).value
Q == define(<<"q">>, <<"a", "b">>, "", TRUE).value
p_1 == Predicate(P, <<Constant(1)>>)
p_X == Predicate(P, <<Variable("X")>>)

Leaves ==
    {Variable("X"), Constant(1), StringConstant("s"), SymbolicConstant("c")}

Counts ==
    {IntLiteral(2), IntLiteral(0), IntLiteral(-1), Variable("N"), StringConstant("s")}

InitTerm ==
    /\ subject \in Leaves
    /\ error = NoError
    /\ expr = None
    /\ text = NotRendered
    /\ base = None
    /\ history = <<>>
    /\ program = NoProgram
    /\ output = NotRendered
    /\ message = NoMessage
    /\ rule_head = None
    /\ rule_body = <<>>
    /\ rule_object = None
    /\ instance_a = None
    /\ instance_b = None
    /\ compared = None
    /\ predicate_class = None
    /\ puzzle = None
    /\ solver = None

\* the outcome of a call on the current term: the object built replaces it,
\* an exception leaves it as it was
Outcome(r) ==
    /\ subject' = IF r.error = NoError THEN r.value ELSE subject
    /\ error' = r.error
    /\ UNCHANGED <<exprVars, negVars, progVars, ruleVars, eqVars, classVars, puzzleVars, solveVars>>

CanGrow == Size(subject) < MaxSize

TermExpression ==
    /\ CanGrow
    /\ \E r \in {Expression_init(subject, ADD, IntLiteral(1)),
                 Expression_init(None, UNARY_MINUS, subject)} : Outcome(r)

TermComparison ==
    /\ CanGrow
    /\ \E r \in {Comparison_init(subject, EQUAL, IntLiteral(1)),
                 Comparison_init(Variable("X"), EQUAL, subject),
                 Comparison_init(Variable("X"), NOT_EQUAL, subject),
                 Comparison_init(IntLiteral(1), EQUAL, subject)} : Outcome(r)

TermPredicate ==
    /\ CanGrow
    /\ \E r \in {Predicate_post_init(P, <<subject>>),
                 Predicate_post_init(Q, <<subject, SymbolicConstant("c")>>)} : Outcome(r)

TermRangePool ==
    /\ CanGrow
    /\ \E r \in {RangePool_init(IntLiteral(1), subject),
                 RangePool_init(subject, IntLiteral(3))} : Outcome(r)

TermExplicitPool ==
    /\ CanGrow
    /\ \E r \in {ExplicitPool_init(<<subject>>),
                 ExplicitPool_init(<<IntLiteral(1), subject>>)} : Outcome(r)

TermAggregate ==
    /\ CanGrow
    /\ \E r \in {Aggregate_init("#count", <<subject>>, <<>>),
                 Aggregate_init("#sum", <<Constant(1), subject>>, <<p_1>>),
                 Aggregate_init("#count", <<Constant(1)>>, <<subject>>)} : Outcome(r)

TermAggregateAdd ==
    /\ subject.kind = "Aggregate"
    /\ Len(subject.elements) < MaxElements
    /\ \E r \in {Aggregate_add(subject, <<Variable("X")>>, <<p_X>>),
                 Aggregate_add(subject, <<Constant(1)>>, <<>>)} : Outcome(r)

TermChoice ==
    /\ CanGrow
    /\ \E r \in {Choice_init(subject, <<>>),
                 Choice_init(p_1, <<subject>>)} : Outcome(r)

TermChoiceAdd ==
    /\ subject.kind = "Choice"
    /\ Len(subject.elements) < MaxElements
    /\ \E r \in {Choice_add(subject, p_X, <<>>),
                 Choice_add(subject, p_1, <<p_1>>)} : Outcome(r)

TermChoiceExactly ==
    /\ subject.kind = "Choice"
    /\ \E count \in Counts : Outcome(exactly(subject, count))

TermChoiceAtLeast ==
    /\ subject.kind = "Choice"
    /\ \E count \in Counts : Outcome(at_least(subject, count))

TermChoiceAtMost ==
    /\ subject.kind = "Choice"
    /\ \E count \in Counts : Outcome(at_most(subject, count))

TermDefaultNegation ==
    /\ CanGrow
    /\ Outcome(DefaultNegation_init(subject))

TermClassicalNegation ==
    /\ CanGrow
    /\ Outcome(ClassicalNegation_init(subject))

TermConditionalLiteral ==
    /\ CanGrow
    /\ \E r \in {ConditionalLiteral_init(subject, <<p_1>>),
                 ConditionalLiteral_init(p_1, <<subject>>)} : Outcome(r)

NextTerm ==
    \/ TermExpression \/ TermComparison \/ TermPredicate
    \/ TermRangePool \/ TermExplicitPool
    \/ TermAggregate \/ TermAggregateAdd
    \/ TermChoice \/ TermChoiceAdd
    \/ TermChoiceExactly \/ TermChoiceAtLeast \/ TermChoiceAtMost
    \/ TermDefaultNegation \/ TermClassicalNegation \/ TermConditionalLiteral

SpecTerm == InitTerm /\ [][NextTerm]_vars

\* C9: is_grounded holds of a term exactly when no Variable occurs anywhere
\* in it, for every node kind, variables local to an aggregate or choice
\* body and variables used as cardinality bounds included.
Thm_C9_GroundedIffNoVariable ==
    is_grounded(subject) <=> ~ContainsVariable(subject)

Wit_C9_ChoiceWithVariableBound ==
    /\ subject.kind = "Choice"
    /\ \A i \in 1..Len(subject.elements) :
          /\ ~ContainsVariable(subject.elements[i][1])
          /\ \A j \in 1..Len(subject.elements[i][2]) :
                ~ContainsVariable(subject.elements[i][2][j])
    /\ subject.max_cardinality = Variable("N")
    /\ ~is_grounded(subject)

\* the call raised: the Choice is as it was before the call
Raised == error' # NoError /\ subject' = subject

MinSet == subject.min_cardinality # None
MaxSet == subject.max_cardinality # None

\* C2: on a Choice a bound that is set is never overwritten: at_least raises
\* when the minimum is set, at_most raises when the maximum is set, exactly
\* raises when either is set, and a raising call leaves both bounds as they
\* were.
Thm_C2_BoundsNeverOverwritten ==
    [][/\ (TermChoiceAtLeast /\ MinSet) => Raised
       /\ (TermChoiceAtMost /\ MaxSet) => Raised
       /\ (TermChoiceExactly /\ (MinSet \/ MaxSet)) => Raised
       /\ (subject.kind = "Choice" /\ subject'.kind = "Choice") =>
             /\ MinSet => subject'.min_cardinality = subject.min_cardinality
             /\ MaxSet => subject'.max_cardinality = subject.max_cardinality
             /\ error' # NoError =>
                   /\ subject'.min_cardinality = subject.min_cardinality
                   /\ subject'.max_cardinality = subject.max_cardinality]_vars

\* a Choice bounded by at_least(0) and at_most(2) on which a further call
\* raised ValueError
Wit_C2_RaisedOnBoundedChoice ==
    /\ subject.kind = "Choice"
    /\ subject.min_cardinality = Constant(0)
    /\ subject.max_cardinality = Constant(2)
    /\ error = ValueError

(***************************************************************************)
(* SpecNeg: applying Not(...) and ClassicalNegation(...) repeatedly to a    *)
(* literal, and rendering the result                                       *)
(***************************************************************************)
NOT == "Not"
NEG == "ClassicalNegation"
MINUS_OPERATOR == "-"    \* the unary operator - on a term
INVERT_OPERATOR == "~"   \* the unary operator ~ on a term

NegBases ==
    {p_1, p_X,
     Predicate(Q, <<Variable("X"), StringConstant("s")>>),
     Comparison(Variable("X"), EQUAL, Constant(1))}

InitNeg ==
    /\ base \in NegBases
    /\ subject = base
    /\ history = <<>>
    /\ error = NoError
    /\ text = NotRendered
    /\ expr = None
    /\ program = NoProgram
    /\ output = NotRendered
    /\ message = NoMessage
    /\ rule_head = None
    /\ rule_body = <<>>
    /\ rule_object = None
    /\ instance_a = None
    /\ instance_b = None
    /\ compared = None
    /\ predicate_class = None
    /\ puzzle = None
    /\ solver = None

\* the outcome of wrapping the current literal: history grows when the call
\* returned an object
Wrapped(r, call) ==
    /\ subject' = IF r.error = NoError THEN r.value ELSE subject
    /\ history' = IF r.error = NoError THEN Append(history, call) ELSE history
    /\ error' = r.error
    /\ text' = NotRendered
    /\ UNCHANGED <<expr, base, progVars, ruleVars, eqVars, classVars, puzzleVars, solveVars>>

\* subject = Not(subject)
ApplyNot ==
    /\ Len(history) < MaxCalls
    /\ Wrapped(DefaultNegation_init(subject), NOT)

\* subject = ClassicalNegation(subject), also written -subject on a Predicate
ApplyClassicalNegation ==
    /\ Len(history) < MaxCalls
    /\ Wrapped(ClassicalNegation_init(subject), NEG)

\* Predicate.__neg__
Predicate_neg(p) == ClassicalNegation_init(p)

\* ~p: neither Predicate nor BasicTerm nor Term defines __invert__, so the
\* interpreter raises TypeError (bad operand type for unary ~)
Predicate_invert(p) == Raise(TypeError)

\* subject = -subject on a predicate instance
ApplyMinusOperator ==
    /\ Len(history) < MaxCalls
    /\ subject.kind = "Predicate"
    /\ Wrapped(Predicate_neg(subject), MINUS_OPERATOR)

\* subject = ~subject on a predicate instance
ApplyInvertOperator ==
    /\ Len(history) < MaxCalls
    /\ subject.kind = "Predicate"
    /\ Wrapped(Predicate_invert(subject), INVERT_OPERATOR)

\* subject.render()
RenderNeg ==
    /\ text = NotRendered
    /\ text' = render(subject, NoneOp, FALSE)
    /\ error' = NoError
    /\ UNCHANGED <<expr, subject, negVars, progVars, ruleVars, eqVars, classVars, puzzleVars, solveVars>>

NextNeg ==
    ApplyNot \/ ApplyClassicalNegation \/ ApplyMinusOperator \/ ApplyInvertOperator
    \/ RenderNeg

SpecNeg == InitNeg /\ [][NextNeg]_vars

RECURSIVE NestedDefaultNegations(_)
\* how many DefaultNegation objects are stacked at the top of t
NestedDefaultNegations(t) ==
    IF t.kind = "DefaultNegation" THEN 1 + NestedDefaultNegations(t.term) ELSE 0

OnlyNot == history # <<>> /\ \A i \in 1..Len(history) : history[i] = NOT

Claim_C4_DoubleClassicalNegation ==
    (base.kind = "Predicate" /\ history = <<NEG, NEG>> /\ text # NotRendered) =>
        text = render(base, NoneOp, FALSE)

(***************************************************************************)
(* Sorting of strings                                                      *)
(***************************************************************************)
\* the strings that get sorted, in code point order
CodePointOrder == <<"c", "d", "h", "p", "q">>

\* sorted(strings) for strings of CodePointOrder
sorted(strings) ==
    LET member(x) == x \in strings IN SelectSeq(CodePointOrder, member)

\* position of a string of CodePointOrder in it
Rank(string) == CHOOSE i \in 1..Len(CodePointOrder) : CodePointOrder[i] = string

\* a < b for the texts of two show directives "#show name/arity.": they
\* differ first in the name or, with one name, in the arity digit
DirectiveBefore(a, b) ==
    \/ Rank(a[2]) < Rank(b[2])
    \/ a[2] = b[2] /\ \E i, j \in 0..9 : i < j /\ a[4] = Digit(i) /\ b[4] = Digit(j)

\* sorted(list(show_statements)) without the order of the directive texts:
\* the directives in the order the set hands them out, by descending name
sorted_directives_Unsorted(directives) ==
    CHOOSE s \in [1..Cardinality(directives) -> directives] :
        \A i, j \in 1..Cardinality(directives) : i < j => DirectiveBefore(s[j], s[i])

\* sorted(list(show_statements))
sorted_directives(directives) ==
    CHOOSE s \in [1..Cardinality(directives) -> directives] :
        \A i, j \in 1..Cardinality(directives) : i < j => DirectiveBefore(s[i], s[j])

(***************************************************************************)
(* validate_in_context and the collect_* traversals of every node kind     *)
(***************************************************************************)
Failure(exception, msg) == [error |-> exception, message |-> msg, value |-> None]
Success(value) == [error |-> NoError, message |-> NoMessage, value |-> value]

\* validate_in_context without the body check of Choice and the head check
\* of DefaultNegation
validate_in_context_PositionBlind(t, is_in_head) ==
    IF t.kind = "Variable"
    THEN Failure(ValueError,
           <<"Variables can only be used as arguments to predicates or other terms">>)
    ELSE IF t.kind \in ConstantBaseKinds
    THEN Failure(ValueError,
           <<"Constants can only be used as arguments to predicates or other terms">>)
    ELSE IF t.kind = "Expression"
    THEN Failure(ValueError,
           <<"Expressions can only be used as parts of comparisons, assignments, or as predicate arguments">>)
    ELSE IF t.kind = "Aggregate"
    THEN Failure(ValueError,
           <<"Aggregates must be used in comparisons (e.g., #count{...} > 0) and cannot appear directly in rule heads or bodies">>)
    ELSE IF t.kind = "ConditionalLiteral" /\ is_in_head
    THEN Failure(ValueError, <<"Conditional literals cannot be used in rule heads">>)
    ELSE Success(None)

\* Term.validate_in_context(is_in_head)
validate_in_context(t, is_in_head) ==
    IF t.kind = "Variable"
    THEN Failure(ValueError,
           <<"Variables can only be used as arguments to predicates or other terms">>)
    ELSE IF t.kind \in ConstantBaseKinds
    THEN Failure(ValueError,
           <<"Constants can only be used as arguments to predicates or other terms">>)
    ELSE IF t.kind = "Expression"
    THEN Failure(ValueError,
           <<"Expressions can only be used as parts of comparisons, assignments, or as predicate arguments">>)
    ELSE IF t.kind = "Aggregate"
    THEN Failure(ValueError,
           <<"Aggregates must be used in comparisons (e.g., #count{...} > 0) and cannot appear directly in rule heads or bodies">>)
    ELSE IF t.kind = "Choice" /\ ~is_in_head
    THEN Failure(ValueError,
           <<"Choice rules can only be used in rule heads, not in rule bodies">>)
    ELSE IF t.kind = "DefaultNegation" /\ is_in_head
    THEN Failure(ValueError, <<"Default negation (not) cannot be used in rule heads">>)
    ELSE IF t.kind = "ConditionalLiteral" /\ is_in_head
    THEN Failure(ValueError, <<"Conditional literals cannot be used in rule heads">>)
    ELSE Success(None)

\* constants.update(x.collect(...)) for every x of a list
UnionOver(s, collect(_)) == UNION {collect(s[i]) : i \in 1..Len(s)}

RECURSIVE collect_symbolic_constants(_)
\* Term.collect_symbolic_constants of every node kind
collect_symbolic_constants(t) ==
    IF t.kind = "SymbolicConstant" THEN {t.value}
    ELSE IF t.kind \in ValueKinds THEN {}
    ELSE IF t.kind = "Expression"
         THEN (IF t.first_term # None THEN collect_symbolic_constants(t.first_term)
               ELSE {})
              \cup collect_symbolic_constants(t.second_term)
    ELSE IF t.kind = "Comparison"
         THEN collect_symbolic_constants(t.left_term)
              \cup collect_symbolic_constants(t.right_term)
    ELSE IF t.kind = "RangePool"
         THEN collect_symbolic_constants(t.start) \cup collect_symbolic_constants(t.end)
    ELSE IF t.kind = "ExplicitPool"
         THEN UnionOver(t.elements, collect_symbolic_constants)
    ELSE IF t.kind = "Predicate"
         THEN UnionOver(t.arguments, collect_symbolic_constants)
    ELSE IF t.kind = "Aggregate"
         THEN UNION {UnionOver(t.elements[i][1], collect_symbolic_constants)
                     \cup UnionOver(t.elements[i][2], collect_symbolic_constants) :
                     i \in 1..Len(t.elements)}
    ELSE IF t.kind = "Choice"
         THEN UNION {collect_symbolic_constants(t.elements[i][1])
                     \cup UnionOver(t.elements[i][2], collect_symbolic_constants) :
                     i \in 1..Len(t.elements)}
              \cup (IF t.min_cardinality # None
                    THEN collect_symbolic_constants(t.min_cardinality) ELSE {})
              \cup (IF t.max_cardinality # None
                    THEN collect_symbolic_constants(t.max_cardinality) ELSE {})
    ELSE IF t.kind \in NegatedLiteralKinds THEN collect_symbolic_constants(t.term)
    ELSE collect_symbolic_constants(t.head)
         \cup UnionOver(t.condition, collect_symbolic_constants)

RECURSIVE collect_predicates(_)
\* Term.collect_predicates of every node kind: the predicate classes used
collect_predicates(t) ==
    IF t.kind \in ValueKinds \/ t.kind = "RangePool" THEN {}
    ELSE IF t.kind = "Expression"
         THEN (IF t.first_term # None THEN collect_predicates(t.first_term) ELSE {})
              \cup collect_predicates(t.second_term)
    ELSE IF t.kind = "Comparison"
         THEN collect_predicates(t.left_term) \cup collect_predicates(t.right_term)
    ELSE IF t.kind = "ExplicitPool" THEN UnionOver(t.elements, collect_predicates)
    ELSE IF t.kind = "Predicate"
         THEN {t.schema} \cup UnionOver(t.arguments, collect_predicates)
    ELSE IF t.kind = "Aggregate"
         THEN UNION {UnionOver(t.elements[i][1], collect_predicates)
                     \cup UnionOver(t.elements[i][2], collect_predicates) :
                     i \in 1..Len(t.elements)}
    ELSE IF t.kind = "Choice"
         THEN UNION {collect_predicates(t.elements[i][1])
                     \cup UnionOver(t.elements[i][2], collect_predicates) :
                     i \in 1..Len(t.elements)}
    ELSE IF t.kind \in NegatedLiteralKinds THEN collect_predicates(t.term)
    ELSE collect_predicates(t.head) \cup UnionOver(t.condition, collect_predicates)

\* Predicate.get_arity
get_arity(schema) == Len(schema.fields)

\* Predicate.get_show_directive, as the tokens of the directive; <<>> is None
get_show_directive(schema) ==
    IF ~schema.show THEN <<>>
    ELSE <<"#show ", get_name(schema), "/", str(get_arity(schema)), ".">>

(***************************************************************************)
(* pyclingo/program_elements.py                                            *)
(***************************************************************************)
\* Comment(text); text is held as the list of its lines
Comment(lines) == [kind |-> "Comment", text |-> lines]
BlankLine == [kind |-> "BlankLine"]
Rule(head, body) == [kind |-> "Rule", head |-> head, body |-> body]

\* body=None in a call of Rule(...); a list of terms never holds None
NoBody == <<None>>

\* Rule.__init__: head is None or a term, body is NoBody or a list of terms
Rule_init(head, body) ==
    LET body_terms == IF body = NoBody THEN <<>> ELSE body
        checked(i) == validate_in_context(body_terms[i], FALSE)
        offenders == {i \in 1..Len(body_terms) : checked(i).error # NoError}
        first == CHOOSE i \in offenders : \A j \in offenders : i <= j
    IN  IF head = None /\ body = NoBody
        THEN Failure(ValueError, <<"Cannot have a rule with empty head and body!">>)
        ELSE IF head # None /\ validate_in_context(head, TRUE).error # NoError
        THEN validate_in_context(head, TRUE)
        ELSE IF offenders # {} THEN checked(first)
        ELSE Success(Rule(head, body_terms))

\* ProgramElement.render, as the tokens of the element's text
Element_render(element) ==
    IF element.kind = "Comment"
    THEN (IF Len(element.text) > 1
          THEN <<"%*", "\n">> \o Join([i \in 1..Len(element.text) |-> <<element.text[i]>>],
                                      <<"\n">>) \o <<"\n", "*%">>
          ELSE <<"% ">> \o element.text)
    ELSE IF element.kind = "BlankLine" THEN <<>>
    ELSE (IF element.head # None THEN render(element.head, NoneOp, FALSE) ELSE <<>>)
         \o (IF element.body # <<>>
             THEN (IF element.head # None THEN <<" :- ">> ELSE <<":- ">>)
                  \o Join([i \in 1..Len(element.body) |->
                             render(element.body[i], NoneOp, FALSE)], CommaSpace)
             ELSE <<>>)
         \o <<".">>

\* ProgramElement.collect_symbolic_constants
Element_collect_symbolic_constants(element) ==
    IF element.kind # "Rule" THEN {}
    ELSE (IF element.head # None THEN collect_symbolic_constants(element.head) ELSE {})
         \cup UnionOver(element.body, collect_symbolic_constants)

\* ProgramElement.collect_predicates
Element_collect_predicates(element) ==
    IF element.kind # "Rule" THEN {}
    ELSE (IF element.head # None THEN collect_predicates(element.head) ELSE {})
         \cup UnionOver(element.body, collect_predicates)

(***************************************************************************)
(* pyclingo/solver.py: ASPProgram.  _segments and _symbolic_constants are   *)
(* dicts: sequences of entries in insertion order with distinct keys.      *)
(* A method returns the exception raised, its message, and the program as  *)
(* the call leaves it.                                                     *)
(***************************************************************************)
\* ASPProgram.__init__; header "" stands for None
ASPProgram(header, default_segment) ==
    [header |-> header, default_segment |-> default_segment,
     segments |-> <<>>, symbolic_constants |-> <<>>]

Keys(dict) == {dict[i].name : i \in 1..Len(dict)}

Done(prog) == [error |-> NoError, message |-> NoMessage, program |-> prog]
Raises(exception, msg, prog) == [error |-> exception, message |-> msg, program |-> prog]

\* self._segments[key]: the defaultdict creates a missing entry
Touch(prog, key) ==
    IF key \in Keys(prog.segments) THEN prog
    ELSE [prog EXCEPT !.segments = Append(@, [name |-> key, elements |-> <<>>])]

\* self._segments[key].append(element)
AppendElement(prog, key, element) ==
    LET touched == Touch(prog, key)
    IN  [touched EXCEPT !.segments =
            [i \in 1..Len(@) |->
                IF @[i].name = key THEN [@[i] EXCEPT !.elements = Append(@, element)]
                ELSE @[i]]]

\* segment or self.default_segment; <<>> stands for None and for ""
SegmentKey(prog, segment) == IF segment = <<>> THEN prog.default_segment ELSE segment

\* ASPProgram.add_segment
add_segment(prog, segment) ==
    IF segment \in Keys(prog.segments)
    THEN Raises(ValueError, <<"Segment '", Text(segment), "' already exists">>, prog)
    ELSE Done([prog EXCEPT !.segments = Append(@, [name |-> segment, elements |-> <<>>])])

RECURSIVE fact_loop(_, _, _)
fact_loop(prog, predicates, key) ==
    IF predicates = <<>> THEN Done(prog)
    ELSE LET rule == Rule_init(Head(predicates), NoBody)
         IN  IF rule.error # NoError
             THEN Raises(rule.error, rule.message, Touch(prog, key))
             ELSE fact_loop(AppendElement(prog, key, rule.value), Tail(predicates), key)

\* ASPProgram.fact
fact(prog, predicates, segment) ==
    IF \E i \in 1..Len(predicates) : predicates[i].kind # "Predicate"
    THEN Raises(AssertionError, NoMessage, prog)
    ELSE fact_loop(prog, predicates, SegmentKey(prog, segment))

\* the segment entry is looked up, and so created, before Rule(...) is built
AppendRule(prog, key, rule) ==
    IF rule.error # NoError THEN Raises(rule.error, rule.message, Touch(prog, key))
    ELSE Done(AppendElement(prog, key, rule.value))

\* ASPProgram.when, conditions given as a sequence
when(prog, conditions, let, segment) ==
    AppendRule(prog, SegmentKey(prog, segment), Rule_init(let, conditions))

\* ASPProgram.forbid
forbid(prog, conditions, segment) ==
    AppendRule(prog, SegmentKey(prog, segment), Rule_init(None, conditions))

\* ASPProgram.comment
comment(prog, lines, segment) ==
    Done(AppendElement(prog, SegmentKey(prog, segment), Comment(lines)))

\* ASPProgram.blank_line
blank_line(prog, segment) ==
    Done(AppendElement(prog, SegmentKey(prog, segment), BlankLine))

\* ASPProgram.section
section(prog, title_line, segment) ==
    comment(blank_line(prog, segment).program, <<title_line>>, segment)

\* a Python str passed as the value of a symbolic constant
Str(value) == [kind |-> "str", value |-> value]

\* register_symbolic_constant without the duplicate check: the dict assignment
\* rebinds a name that is already registered
register_symbolic_constant_Rebinding(prog, name, value) ==
    IF name = <<>> \/ ~islower(name[1])
    THEN Raises(ValueError,
                <<"Constant name must start with a lowercase letter: ", Text(name)>>, prog)
    ELSE IF \E i \in 1..Len(name) : ~(isalnum(name[i]) \/ name[i] = "_")
    THEN Raises(ValueError,
                <<"Constant name can only contain letters, digits, and underscores: ",
                  Text(name)>>, prog)
    ELSE IF value.kind \notin {"int", "str"}
    THEN Raises(TypeError,
                <<"Constant value must be an integer or string, got ", value.kind>>, prog)
    ELSE IF Text(name) \in Keys(prog.symbolic_constants)
    THEN Done([prog EXCEPT !.symbolic_constants =
                 [i \in 1..Len(@) |-> IF @[i].name = Text(name)
                                      THEN [name |-> Text(name), value |-> value]
                                      ELSE @[i]]])
    ELSE Done([prog EXCEPT !.symbolic_constants =
                              Append(@, [name |-> Text(name), value |-> value])])

\* ASPProgram.register_symbolic_constant; name is given by its characters
register_symbolic_constant(prog, name, value) ==
    IF name = <<>> \/ ~islower(name[1])
    THEN Raises(ValueError,
                <<"Constant name must start with a lowercase letter: ", Text(name)>>, prog)
    ELSE IF \E i \in 1..Len(name) : ~(isalnum(name[i]) \/ name[i] = "_")
    THEN Raises(ValueError,
                <<"Constant name can only contain letters, digits, and underscores: ",
                  Text(name)>>, prog)
    ELSE IF Text(name) \in Keys(prog.symbolic_constants)
    THEN Raises(ValueError,
                <<"Symbolic constant '", Text(name), "' is already registered">>, prog)
    ELSE IF value.kind \notin {"int", "str"}
    THEN Raises(TypeError,
                <<"Constant value must be an integer or string, got ", value.kind>>, prog)
    ELSE Done([prog EXCEPT !.symbolic_constants =
                              Append(@, [name |-> Text(name), value |-> value])])

\* every element of the program, segment after segment
AllElements(prog) ==
    Flatten([i \in 1..Len(prog.segments) |-> prog.segments[i].elements])

\* ASPProgram._collect_predicates
_collect_predicates(prog) == UnionOver(AllElements(prog), Element_collect_predicates)

\* ASPProgram._collect_used_symbolic_constants
_collect_used_symbolic_constants(prog) ==
    UnionOver(AllElements(prog), Element_collect_symbolic_constants)

UnregisteredMessage(names) ==
    <<"Unregistered symbolic constants used in program: ">>
    \o Join([i \in 1..Len(names) |-> <<names[i]>>], CommaSpace)

_validate_constants_NamingFirst(prog) ==
    LET unregistered == _collect_used_symbolic_constants(prog)
                            \ Keys(prog.symbolic_constants)
    IN  IF unregistered # {}
        THEN Raises(ValueError,
                    UnregisteredMessage(<<Head(sorted(unregistered))>>), prog)
        ELSE Done(prog)

\* ASPProgram._validate_constants
_validate_constants(prog) ==
    LET unregistered == _collect_used_symbolic_constants(prog)
                            \ Keys(prog.symbolic_constants)
    IN  IF unregistered # {}
        THEN Raises(ValueError, UnregisteredMessage(sorted(unregistered)), prog)
        ELSE Done(prog)

\* datetime.now().strftime('%Y-%m-%d %H:%M:%S')
Timestamp == "<timestamp>"

\* one `#const` line of ASPProgram.render: a str value is quoted
const_line(c) ==
    IF c.value.kind = "str"
    THEN <<"#const ", c.name, " = ", "\"", c.value.value, "\"", ".">>
    ELSE <<"#const ", c.name, " = ", str(c.value.value), ".">>

\* the `#const` lines without the test `name not in used_symbolic_constants`
const_lines_AllRegistered(prog, used) ==
    [i \in 1..Len(prog.symbolic_constants) |-> const_line(prog.symbolic_constants[i])]

\* the `#const` lines of ASPProgram.render: registered constants in
\* registration order, those that no element uses left out
const_lines(prog, used) ==
    LET listed(c) == c.name \in used
        consts == SelectSeq(prog.symbolic_constants, listed)
    IN  [i \in 1..Len(consts) |-> const_line(consts[i])]

\* ASPProgram.render: the lines of the program text
Lines(prog) ==
    LET consts == const_lines(prog, _collect_used_symbolic_constants(prog))
        segment_lines(seg) ==
            (IF Len(prog.segments) > 1 /\ Len(seg.elements) > 0
             THEN << <<>>, <<"% ===== ", Text(title(seg.name)), " =====">> >>
             ELSE <<>>)
            \o [i \in 1..Len(seg.elements) |-> Element_render(seg.elements[i])]
        show_statements ==
            {get_show_directive(pred) :
                pred \in {c \in _collect_predicates(prog) : get_show_directive(c) # <<>>}}
    IN  (IF prog.header # "" THEN << <<"% ", prog.header>> >> ELSE <<>>)
        \o << <<"% Generated by pyclingo on ", Timestamp>> >>
        \o consts
        \o Flatten([i \in 1..Len(prog.segments) |-> segment_lines(prog.segments[i])])
        \o (IF show_statements # {}
            THEN << <<>>, <<"#show.">> >> \o sorted_directives(show_statements)
            ELSE <<>>)

\* ASPProgram.render: "\n".join(lines) + "\n", or the exception of the
\* validation
ASPProgram_render(prog) ==
    LET validated == _validate_constants(prog)
    IN  IF validated.error # NoError
        THEN [error |-> validated.error, message |-> validated.message,
              value |-> NotRendered]
        ELSE [error |-> NoError, message |-> NoMessage,
              value |-> Join(Lines(prog), <<"\n">>) \o <<"\n">>]

(***************************************************************************)
(* SpecProgram: assembling an ASPProgram and rendering it                   *)
(***************************************************************************)
Rules == <<"R", "u", "l", "e", "s">>
rules == <<"r", "u", "l", "e", "s">>
Symbols == <<"S", "y", "m", "b", "o", "l", "s">>
symbols == <<"s", "y", "m", "b", "o", "l", "s">>

SegmentNames == {Symbols, symbols, rules}   \* names given to add_segment
SegmentArgs == {<<>>, symbols}              \* segment= of the other calls

Sym_c == SymbolicConstant("c")
Sym_d == SymbolicConstant("d")
p_c == Predicate_post_init(P, <<Sym_c>>).value
q_d == Predicate_post_init(Q, <<Sym_d, StringConstant("s")>>).value
ChoiceAtMostD == at_most(Choice_init(p_X, <<>>).value, Sym_d).value
CmpC ==
    Comparison_init(Variable("X"), EQUAL,
                    Expression_init(Sym_c, ADD, IntLiteral(1)).value).value
CountC ==
    Comparison_init(Variable("X"), EQUAL,
                    Aggregate_init("#count", <<Sym_c>>, <<p_X>>).value).value
NotQd == DefaultNegation_init(q_d).value
CondD ==
    ConditionalLiteral_init(
        p_1, <<Predicate_post_init(P, <<RangePool_init(IntLiteral(1), Sym_d).value>>).value>>).value

\* a schema that is not shown, and terms over it
H == define(<<"h">>, <<"a">>, "", FALSE).value
NotHd == DefaultNegation_init(Predicate_post_init(H, <<Sym_d>>).value).value
CountH ==
    Comparison_init(Variable("X"), EQUAL,
                    Aggregate_init("#count", <<Sym_c>>,
                                   <<Predicate_post_init(H, <<Variable("X")>>).value>>).value).value
CondQ ==
    ConditionalLiteral_init(
        q_d, <<Predicate_post_init(P, <<RangePool_init(IntLiteral(1), Sym_d).value>>).value>>).value

FactCalls == {<<p_c>>, <<ClassicalNegation_init(p_1).value>>}
WhenCalls ==
    {[conditions |-> <<CmpC, CondQ>>, let |-> ChoiceAtMostD],
     [conditions |-> <<ChoiceAtMostD>>, let |-> p_1]}
ForbidCalls == {<<NotHd, CountH>>, <<>>}   \* forbid(not h(d), X = #count{...}) and forbid()
RegisterCalls ==
    {[name |-> <<"c">>, value |-> IntLiteral(3)],
     [name |-> <<"d">>, value |-> Str("north")],
     [name |-> <<"d">>, value |-> IntLiteral(4)],
     [name |-> <<"M", "a", "x">>, value |-> IntLiteral(3)],
     [name |-> <<"c", "-", "d">>, value |-> Constant(3)],
     [name |-> <<"c">>, value |-> Constant(3)]}

InitProgram ==
    /\ program = ASPProgram("", Rules)
    /\ output = NotRendered
    /\ message = NoMessage
    /\ error = NoError
    /\ subject = None
    /\ expr = None
    /\ text = NotRendered
    /\ base = None
    /\ history = <<>>
    /\ rule_head = None
    /\ rule_body = <<>>
    /\ rule_object = None
    /\ instance_a = None
    /\ instance_b = None
    /\ compared = None
    /\ predicate_class = None
    /\ puzzle = None
    /\ solver = None

ElementCount(prog) == Len(AllElements(prog))

\* the outcome of a call on the program
Called(r) ==
    /\ program' = r.program
    /\ error' = r.error
    /\ message' = r.message
    /\ output' = NotRendered
    /\ UNCHANGED <<exprVars, subject, negVars, ruleVars, eqVars, classVars, puzzleVars, solveVars>>

AddSegmentCall(name) ==
    /\ Len(program.segments) < MaxSegments
    /\ Called(add_segment(program, name))

AddSegment ==
    /\ program # NoProgram
    /\ \E name \in SegmentNames : AddSegmentCall(name)

Fact ==
    /\ ElementCount(program) < MaxRules
    /\ \E predicates \in FactCalls, segment \in SegmentArgs :
          Called(fact(program, predicates, segment))

When ==
    /\ ElementCount(program) < MaxRules
    /\ \E call \in WhenCalls : Called(when(program, call.conditions, call.let, <<>>))

Forbid ==
    /\ ElementCount(program) < MaxRules
    /\ \E conditions \in ForbidCalls : Called(forbid(program, conditions, symbols))

CommentCall ==
    /\ ElementCount(program) < MaxRules
    /\ Called(comment(program, <<"note">>, <<>>))

BlankLineCall ==
    /\ ElementCount(program) < MaxRules
    /\ Called(blank_line(program, <<>>))

SectionCall ==
    /\ ElementCount(program) + 1 < MaxRules
    /\ Called(section(program, "Section", symbols))

RegisterSymbolicConstant ==
    /\ program # NoProgram
    /\ \E call \in RegisterCalls :
          Called(register_symbolic_constant(program, call.name, call.value))

RenderProgram ==
    /\ program # NoProgram
    /\ UNCHANGED <<program, exprVars, subject, negVars, ruleVars, eqVars, classVars, puzzleVars, solveVars>>
    /\ error' = ASPProgram_render(program).error
    /\ message' = ASPProgram_render(program).message
    /\ output' = ASPProgram_render(program).value

NextProgram ==
    \/ AddSegment \/ Fact \/ When \/ Forbid
    \/ CommentCall \/ BlankLineCall \/ SectionCall
    \/ RegisterSymbolicConstant \/ RenderProgram

SpecProgram == InitProgram /\ [][NextProgram]_vars

RECURSIVE SymbolicConstantsIn(_)
\* the names of the SymbolicConstant leaves anywhere in a term
SymbolicConstantsIn(t) ==
    IF t.kind = "SymbolicConstant" THEN {t.value}
    ELSE UNION {SymbolicConstantsIn(u) : u \in StoredTerms(t)}

\* the symbolic constants referenced by the elements of the program
Referenced(prog) ==
    UNION {IF e.kind = "Rule"
           THEN UNION {SymbolicConstantsIn(u) :
                          u \in (Range(e.body) \cup {e.head}) \ {None}}
           ELSE {} : e \in Range(AllElements(prog))}

Unregistered(prog) == Referenced(prog) \ Keys(prog.symbolic_constants)

\* C1: render() raises exactly when some symbolic constant referenced by a
\* program element is not registered; the error then names every such
\* constant; when all referenced constants are registered render() succeeds.
Thm_C1_RenderValidatesConstants ==
    [][RenderProgram =>
         /\ (error' # NoError) <=> (Unregistered(program) # {})
         /\ Unregistered(program) # {} =>
               /\ error' = ValueError
               /\ output' = NotRendered
               /\ \A name \in Unregistered(program) : name \in Range(message')
         /\ Unregistered(program) = {} => output' # NotRendered]_vars

\* render() raised on a program that references c and d with neither
\* registered, naming both
Wit_C1_TwoUnregisteredNamed ==
    /\ Unregistered(program) = {"c", "d"}
    /\ error = ValueError
    /\ message = UnregisteredMessage(<<"c", "d">>)

\* C10: add_segment raises ValueError "Segment ... already exists" whenever
\* the program already has a segment whose name differs from the requested
\* one only in letter case.
Claim_C10_AddSegmentCaseInsensitive ==
    [][\A name \in SegmentNames :
          (/\ AddSegmentCall(name)
           /\ \E existing \in Keys(program.segments) :
                 existing # name /\ lower(existing) = lower(name))
          => /\ error' = ValueError
             /\ message' = <<"Segment '", Text(name), "' already exists">>]_vars

\* C11: content added under segment names that differ only in letter case
\* goes to one segment: no two segments of a program have names that are
\* equal under case folding.
Claim_C11_SegmentsMergedByCase ==
    \A i, j \in 1..Len(program.segments) :
        lower(program.segments[i].name) = lower(program.segments[j].name) => i = j

(***************************************************************************)
(* SpecRule: one call Rule(head=rule_head, body=rule_body), then           *)
(* rule.render().  The body is given as a list of terms or left out.       *)
(***************************************************************************)
MaxBody == 2

\* one term of every node class, each a valid object of its class
RuleTerms ==
    { Variable("X"), Constant(1), Expression(Variable("X"), "+", Constant(1)),
      CmpC, p_1, ClassicalNegation_init(p_1).value, NotQd,
      RangePool_init(IntLiteral(1), IntLiteral(3)).value,
      ExplicitPool_init(<<IntLiteral(1), IntLiteral(2)>>).value,
      CountC, ChoiceAtMostD, CondD }

RuleHeads == {None} \cup RuleTerms
RuleBodies == {NoBody} \cup UNION {[1..n -> RuleTerms] : n \in 0..MaxBody}

InitRule ==
    /\ rule_head \in RuleHeads
    /\ rule_body \in RuleBodies
    /\ rule_object = None
    /\ error = NoError
    /\ message = NoMessage
    /\ text = NotRendered
    /\ expr = None
    /\ subject = None
    /\ base = None
    /\ history = <<>>
    /\ program = NoProgram
    /\ output = NotRendered
    /\ instance_a = None
    /\ instance_b = None
    /\ compared = None
    /\ predicate_class = None
    /\ puzzle = None
    /\ solver = None

\* rule = Rule(head=rule_head, body=rule_body)
ConstructRule ==
    /\ rule_object = None
    /\ error = NoError
    /\ rule_object' = Rule_init(rule_head, rule_body).value
    /\ error' = Rule_init(rule_head, rule_body).error
    /\ message' = Rule_init(rule_head, rule_body).message
    /\ UNCHANGED <<rule_head, rule_body, exprVars, subject, negVars, program, output, eqVars, classVars, puzzleVars, solveVars>>

\* rule.render()
RenderRule ==
    /\ rule_object # None
    /\ text = NotRendered
    /\ text' = Element_render(rule_object)
    /\ UNCHANGED <<expr, termVars, negVars, progVars, ruleVars, eqVars, classVars, puzzleVars, solveVars>>

NextRule == ConstructRule \/ RenderRule

SpecRule == InitRule /\ [][NextRule]_vars

\* the call Rule(...) has been made
RuleCalled == rule_object # None \/ error # NoError

HeadRejectedKinds == {"DefaultNegation", "ConditionalLiteral", "Aggregate"}
BodyRejectedKinds == {"Choice", "Aggregate"}
BothPositionKinds == {"Predicate", "ClassicalNegation", "RangePool", "ExplicitPool"}

BodyList == IF rule_body = NoBody THEN <<>> ELSE rule_body

\* C12: constructing a rule raises at once when the head is a default
\* negation, a conditional literal or a bare aggregate, or when the body holds
\* a choice or a bare aggregate, and then no rule object exists; a rule whose
\* head and body terms are all predicates, classical negations or pools is
\* built with exactly that head and body.
Thm_C12_RuleValidatesPositions ==
    RuleCalled =>
        /\ (\/ rule_head.kind \in HeadRejectedKinds
            \/ \E i \in 1..Len(BodyList) : BodyList[i].kind \in BodyRejectedKinds)
           => (error = ValueError /\ rule_object = None)
        /\ (/\ rule_head.kind \in BothPositionKinds
            /\ \A i \in 1..Len(BodyList) : BodyList[i].kind \in BothPositionKinds)
           => (error = NoError /\ rule_object = Rule(rule_head, BodyList))

\* a rule with a valid head was refused because of a choice in its body
Wit_C12_ChoiceInBodyRaises ==
    /\ RuleCalled
    /\ rule_head = p_1
    /\ rule_body = <<CmpC, ChoiceAtMostD>>
    /\ error = ValueError
    /\ message = <<"Choice rules can only be used in rule heads, not in rule bodies">>
    /\ rule_object = None

\* the value registered under a name, for a registered name
RegisteredValue(prog, name) ==
    LET i == CHOOSE i \in 1..Len(prog.symbolic_constants) :
                 prog.symbolic_constants[i].name = name
    IN  prog.symbolic_constants[i].value

\* C13: register_symbolic_constant raises ValueError when the name is already
\* registered and that call leaves the registry as it was; no call of any
\* method changes the value a registered name is bound to, so a name keeps
\* the value of its first successful registration.
Thm_C13_FirstRegistrationWins ==
    [][/\ \A call \in RegisterCalls :
            (/\ Text(call.name) \in Keys(program.symbolic_constants)
             /\ Called(register_symbolic_constant(program, call.name, call.value)))
            => (/\ error' = ValueError
                /\ program'.symbolic_constants = program.symbolic_constants)
       /\ \A name \in Keys(program.symbolic_constants) :
            /\ name \in Keys(program'.symbolic_constants)
            /\ RegisteredValue(program', name) = RegisteredValue(program, name)]_vars

\* a second registration of d was refused while d is bound to the integer of
\* its first registration
Wit_C13_DuplicateRefused ==
    /\ error = ValueError
    /\ message = <<"Symbolic constant '", "d", "' is already registered">>
    /\ Keys(program.symbolic_constants) = {"c", "d"}
    /\ RegisteredValue(program, "d") = IntLiteral(4)

(***************************************************************************)
(* Equality of predicate instances.  Predicate.define builds the class     *)
(* with make_dataclass(..., frozen=True), whose default eq=True generates  *)
(*     def __eq__(self, other):                                            *)
(*         if other.__class__ is self.__class__:                           *)
(*             return (self.f1, ...) == (other.f1, ...)                    *)
(*         return NotImplemented                                           *)
(* The fields are compared by the == of their own classes: Value and       *)
(* Expression take ComparisonMixin.__eq__, pools take object.__eq__.       *)
(***************************************************************************)
Bool(b) == [kind |-> "bool", value |-> b]
NotImplemented == [kind |-> "NotImplemented"]

\* bool(obj): a class with neither __bool__ nor __len__ makes true objects
bool(obj) == IF obj.kind = "bool" THEN obj.value ELSE TRUE

\* v is w; the model keeps no object identities: shared says whether the two
\* instances were given the same argument objects
is(v, w, shared) == shared /\ v = w

\* ComparisonMixin.__eq__: builds the term `self = other`
ComparisonMixin_eq(self, other) ==
    IF ~IsInstance(other, ExpressionKinds \cup {"Aggregate"}) THEN Raise(ValueError)
    ELSE Comparison_init(self, EQUAL, other)

\* object.__eq__
object_eq(self, other, shared) ==
    IF is(self, other, shared) THEN Return(Bool(TRUE)) ELSE Return(NotImplemented)

RECURSIVE dataclass_eq(_, _, _)
RECURSIVE RichCompare(_, _, _)

\* type(v).__eq__(v, w)
Term_eq(v, w, shared) ==
    IF v.kind = "Predicate" THEN dataclass_eq(v, w, shared)
    ELSE IF v.kind \in ValueKinds \cup {"Expression", "Aggregate"}
         THEN ComparisonMixin_eq(v, w)
    ELSE object_eq(v, w, shared)

\* v == w as the interpreter evaluates it: v.__eq__(w), then the reflected
\* w.__eq__(v), then identity
RichCompare(v, w, shared) ==
    LET direct == Term_eq(v, w, shared)
        reflected == Term_eq(w, v, shared)
    IN  IF direct.error # NoError \/ direct.value # NotImplemented THEN direct
        ELSE IF reflected.error # NoError \/ reflected.value # NotImplemented
             THEN reflected
        ELSE Return(Bool(is(v, w, shared)))

\* x == y for two tuples of one length: the first pair that is not identical
\* and whose == is false (or raises) decides
tuple_eq(x, y, shared) ==
    LET item(i) == IF is(x[i], y[i], shared) THEN Return(Bool(TRUE))
                   ELSE RichCompare(x[i], y[i], shared)
        differing == {i \in 1..Len(x) :
                        item(i).error # NoError \/ ~bool(item(i).value)}
        first == CHOOSE i \in differing : \A j \in differing : i <= j
    IN  IF differing = {} THEN Return(Bool(TRUE))
        ELSE IF item(first).error # NoError THEN item(first)
        ELSE Return(Bool(FALSE))

\* the __eq__ that dataclasses generates for a class made by Predicate.define;
\* one class per schema
dataclass_eq(self, other, shared) ==
    IF other.kind = "Predicate" /\ other.schema = self.schema
    THEN tuple_eq(self.arguments, other.arguments, shared)
    ELSE Return(NotImplemented)

(***************************************************************************)
(* SpecEq: two predicate instances are built and compared with ==          *)
(***************************************************************************)
P_ns == define(<<"p">>, <<"a">>, "ns", TRUE).value
R == define(<<"r">>, <<"a">>, "", TRUE).value

\* what a caller passes for a field
FieldInputs ==
    { IntLiteral(1), IntLiteral(2), Str("x"), Variable("X"), p_1,
      RangePool_init(IntLiteral(1), IntLiteral(3)).value, None }

InstanceCalls ==
    {<<schema, <<v>>>> : schema \in {P, P_ns, R}, v \in FieldInputs}
    \cup {<<Q, <<v, w>>>> : v, w \in {IntLiteral(1), IntLiteral(2)}}

InitEq ==
    /\ instance_a = None
    /\ instance_b = None
    /\ compared = None
    /\ error = NoError
    /\ message = NoMessage
    /\ text = NotRendered
    /\ expr = None
    /\ subject = None
    /\ base = None
    /\ history = <<>>
    /\ program = NoProgram
    /\ output = NotRendered
    /\ rule_head = None
    /\ rule_body = <<>>
    /\ rule_object = None
    /\ predicate_class = None
    /\ puzzle = None
    /\ solver = None

\* instance_a = schema(*arguments)
ConstructA ==
    \E call \in InstanceCalls :
        /\ instance_a' = IF Predicate_post_init(call[1], call[2]).error = NoError
                         THEN Predicate_post_init(call[1], call[2]).value
                         ELSE instance_a
        /\ error' = Predicate_post_init(call[1], call[2]).error
        /\ compared' = None
        /\ UNCHANGED <<instance_b, exprVars, subject, negVars, progVars, ruleVars, classVars, puzzleVars, solveVars>>

\* instance_b = schema(*arguments)
ConstructB ==
    \E call \in InstanceCalls :
        /\ instance_b' = IF Predicate_post_init(call[1], call[2]).error = NoError
                         THEN Predicate_post_init(call[1], call[2]).value
                         ELSE instance_b
        /\ error' = Predicate_post_init(call[1], call[2]).error
        /\ compared' = None
        /\ UNCHANGED <<instance_a, exprVars, subject, negVars, progVars, ruleVars, classVars, puzzleVars, solveVars>>

\* instance_a == instance_b
Compare ==
    /\ instance_a # None
    /\ instance_b # None
    /\ \E shared \in BOOLEAN :
          /\ compared' = RichCompare(instance_a, instance_b, shared)
          /\ error' = RichCompare(instance_a, instance_b, shared).error
    /\ UNCHANGED <<instance_a, instance_b, exprVars, subject, negVars, progVars, ruleVars, classVars, puzzleVars, solveVars>>

NextEq == ConstructA \/ ConstructB \/ Compare

SpecEq == InitEq /\ [][NextEq]_vars

\* C14: equality of predicate instances is structural: a comparison of two
\* instances returns, and it is true exactly when the instances have the same
\* name, the same namespace and equal field values.
Claim_C14_StructuralEquality ==
    compared # None =>
        /\ compared.error = NoError
        /\ bool(compared.value) <=>
             /\ instance_a.schema.cls_name = instance_b.schema.cls_name
             /\ instance_a.schema.namespace = instance_b.schema.namespace
             /\ instance_a.arguments = instance_b.arguments

\* the braces of a choice and what is between them: the choice without bounds
ChoiceBraces(choice) ==
    render([choice EXCEPT !.min_cardinality = None, !.max_cardinality = None],
           NoneOp, FALSE)

\* C15: a choice renders as `{ E } = n` when both bounds are set and equal
\* (by exactly(n), or by at_least(n) and at_most(n), n = 0 included), as
\* `n { E } m` when both are set and differ, as `n { E }` with a lower bound
\* only and as `{ E } m` with an upper bound only.
Thm_C15_CardinalityRendering ==
    subject.kind = "Choice" =>
        LET n == subject.min_cardinality
            m == subject.max_cardinality
            E == Text(ChoiceBraces(subject))
            rendered == Text(render(subject, NoneOp, FALSE))
        IN  /\ Head(ChoiceBraces(subject)) = "{"
            /\ ChoiceBraces(subject)[Len(ChoiceBraces(subject))] = "}"
            /\ (n # None /\ m # None /\ n = m)
               => rendered = E \o " = " \o Text(render(n, NoneOp, FALSE))
            /\ (n # None /\ m # None /\ n # m)
               => rendered = Text(render(n, NoneOp, FALSE)) \o " " \o E \o " "
                             \o Text(render(m, NoneOp, FALSE))
            /\ (n # None /\ m = None)
               => rendered = Text(render(n, NoneOp, FALSE)) \o " " \o E
            /\ (n = None /\ m # None)
               => rendered = E \o " " \o Text(render(m, NoneOp, FALSE))
            /\ (n = None /\ m = None) => rendered = E

\* both bounds of a choice are 0 and it renders in the exact form
Wit_C15_ExactlyZero ==
    /\ subject.kind = "Choice"
    /\ subject.min_cardinality = Constant(0)
    /\ subject.max_cardinality = Constant(0)
    /\ Text(render(subject, NoneOp, FALSE)) = "{ p(1) } = 0"

\* the bounds of a choice differ and it renders with one on each side
Wit_C15_Range ==
    /\ subject.kind = "Choice"
    /\ Text(render(subject, NoneOp, FALSE)) = "0 { p(1) } 2"

\* a bound the specification lets a cardinality setter accept: a non-negative
\* Python int or a grounded numeric term
AcceptableBound(count) ==
    \/ count.kind = "int" /\ count.value >= 0
    \/ count.kind \in {"Constant", "SymbolicConstant"} /\ is_grounded(count)

\* C16: exactly, at_least and at_most accept a bound only if it is a
\* non-negative integer or a grounded numeric term; with any other bound (a
\* negative number, a string constant, an ungrounded variable) the call
\* raises and the bounds of the choice stay as they were.
Claim_C16_SettersValidateBounds ==
    [][subject.kind = "Choice" =>
         \A count \in Counts :
            \A r \in {exactly(subject, count), at_least(subject, count),
                      at_most(subject, count)} :
               (~AcceptableBound(count) /\ Outcome(r))
               => (error' # NoError /\ subject' = subject)]_vars

(***************************************************************************)
(* SpecDefine: Predicate.define(name, ["a"], namespace) and get_name() on  *)
(* the class it returns                                                    *)
(***************************************************************************)
MaxName == 3

NameChars == {"p", "P", "1", "_", "-"}
Names == UNION {[1..n -> NameChars] : n \in 0..MaxName}
Namespaces == {"", "ns"}
NamespaceArgs == {<<"n", "s">>, <<"G">>}   \* namespaces given to with_namespace

InitDefine ==
    /\ predicate_class = None
    /\ error = NoError
    /\ message = NoMessage
    /\ text = NotRendered
    /\ expr = None
    /\ subject = None
    /\ base = None
    /\ history = <<>>
    /\ program = NoProgram
    /\ output = NotRendered
    /\ rule_head = None
    /\ rule_body = <<>>
    /\ rule_object = None
    /\ instance_a = None
    /\ instance_b = None
    /\ compared = None
    /\ puzzle = None
    /\ solver = None

\* predicate_class = Predicate.define(name, ["a"], namespace=namespace)
Define ==
    \E name \in Names, namespace \in Namespaces :
        /\ predicate_class' = define(name, <<"a">>, namespace, TRUE).value
        /\ error' = define(name, <<"a">>, namespace, TRUE).error
        /\ message' = define(name, <<"a">>, namespace, TRUE).message
        /\ text' = NotRendered
        /\ base' = None
        /\ UNCHANGED <<expr, subject, history, program, output, ruleVars, eqVars, puzzleVars, solveVars>>

\* predicate_class = predicate_class.with_namespace(namespace); base keeps
\* the class it was called on
WithNamespace ==
    /\ predicate_class # None
    /\ Len(predicate_class.cls_name) <= MaxName
    /\ \E namespace \in NamespaceArgs :
          predicate_class' = with_namespace(predicate_class, namespace)
    /\ base' = predicate_class
    /\ text' = NotRendered
    /\ UNCHANGED <<expr, subject, error, history, progVars, ruleVars, eqVars, puzzleVars,
                   solveVars>>

\* predicate_class.get_name()
GetName ==
    /\ predicate_class # None
    /\ text = NotRendered
    /\ text' = <<get_name(predicate_class)>>
    /\ UNCHANGED <<expr, termVars, negVars, progVars, ruleVars, eqVars, classVars, puzzleVars, solveVars>>

NextDefine == Define \/ WithNamespace \/ GetName

SpecDefine == InitDefine /\ [][NextDefine]_vars

\* C17: for every name that define accepts, the rendered name of the class it
\* returns is exactly namespace_name when the namespace is not empty, and
\* exactly the name for the empty namespace.
Claim_C17_RenderedNameIsGivenName ==
    (predicate_class # None /\ text # NotRendered) =>
        Text(text) = IF predicate_class.namespace # ""
                     THEN predicate_class.namespace \o "_" \o Text(predicate_class.cls_name)
                     ELSE Text(predicate_class.cls_name)

\* a call that raised left the segments, their element lists and the
\* constant registry as they were
NoPartialState(r) ==
    (Called(r) /\ r.error # NoError)
    => (/\ program'.segments = program.segments
        /\ program'.symbolic_constants = program.symbolic_constants)

\* C18: a fact, when or forbid call that raises leaves no partial state: the
\* set of segments, the element list of every segment and the constant
\* registry are the same after the failed call as before it, whether the
\* target segment exists or not.
Claim_C18_FailedCallLeavesNoState ==
    [][/\ \A predicates \in FactCalls, segment \in SegmentArgs :
            NoPartialState(fact(program, predicates, segment))
       /\ \A call \in WhenCalls :
            NoPartialState(when(program, call.conditions, call.let, <<>>))
       /\ \A conditions \in ForbidCalls :
            NoPartialState(forbid(program, conditions, symbols))]_vars

RECURSIVE PredicatesIn(_)
\* the schemas of the predicate instances that occur in a term
PredicatesIn(t) ==
    (IF t.kind = "Predicate" THEN {t.schema} ELSE {})
    \cup UNION {PredicatesIn(u) : u \in StoredTerms(t)}

\* the schemas referenced by the elements of the program
ReferencedSchemas(prog) ==
    UNION {IF e.kind = "Rule"
           THEN UNION {PredicatesIn(u) : u \in (Range(e.body) \cup {e.head}) \ {None}}
           ELSE {} : e \in Range(AllElements(prog))}

\* where the show directives of single schemas, and the `#show.` line, begin
\* in the rendered text
DirectiveStarts == {i \in 1..Len(output) : output[i] = "#show "}
ShowNothingStarts == {i \in 1..Len(output) : output[i] = "#show."}

Wit_C19_HiddenOnly ==
    /\ output # NotRendered
    /\ ReferencedSchemas(program) = {H}
    /\ ShowNothingStarts = {}

\* where the `#const` lines begin in the rendered text
ConstStarts == {i \in 1..Len(output) : output[i] = "#const "}

\* the value written on the `#const` line that begins at token i
ConstValueAt(i) ==
    IF output[i + 3] = "\"" THEN output[i + 3] \o output[i + 4] \o output[i + 5]
    ELSE output[i + 3]

\* the value a `#const` line has to show for a registered value
ConstValueText(value) ==
    IF value.kind = "str" THEN "\"" \o value.value \o "\"" ELSE str(value.value)

\* C20: a successful render has a `#const` line for a registered symbolic
\* constant exactly when some program element references the constant;
\* registered constants that nothing references are left out, and every
\* referenced one is declared exactly once, with its registered value.
Thm_C20_ConstLines ==
    output # NotRendered =>
        LET declared == {name \in Keys(program.symbolic_constants) :
                            name \in Referenced(program)}
        IN  /\ {<<output[i + 1], output[i + 2], ConstValueAt(i)>> : i \in ConstStarts}
               = {<<name, " = ", ConstValueText(RegisteredValue(program, name))>> :
                     name \in declared}
            /\ Cardinality(ConstStarts) = Cardinality(declared)

\* a rendered program declares the referenced constant c and leaves out the
\* registered constant d that nothing references
Wit_C20_UnreferencedOmitted ==
    /\ output # NotRendered
    /\ Keys(program.symbolic_constants) = {"c", "d"}
    /\ Referenced(program) = {"c"}
    /\ {output[i + 1] : i \in ConstStarts} = {"c"}

(***************************************************************************)
(* aspuzzle/puzzle.py: Puzzle and the modules registered with it.  A       *)
(* module is its name and the number of times its finalize() has run;      *)
(* Module.finalize is the hook a module overrides to add its               *)
(* state-dependent rules.                                                  *)
(***************************************************************************)
Module(name) == [name |-> name, finalize_calls |-> 0]

\* Puzzle.__init__
Puzzle(name) ==
    [name |-> name, program |-> ASPProgram("", Rules), modules |-> <<>>,
     finalized |-> FALSE]

PuzzleDone(pz) == [error |-> NoError, message |-> NoMessage, puzzle |-> pz]
PuzzleRaises(exception, msg, pz) == [error |-> exception, message |-> msg, puzzle |-> pz]

\* Puzzle.register_module, as Module.__init__ calls it; the module is stored
\* before add_segment can raise
register_module(pz, module) ==
    IF module.name \in Keys(pz.modules)
    THEN PuzzleRaises(ValueError,
                      <<"Module with name '", Text(module.name), "' is already registered">>,
                      pz)
    ELSE LET stored == [pz EXCEPT !.modules = Append(@, module)]
             added == add_segment(stored.program, module.name)
         IN  [error |-> added.error, message |-> added.message,
              puzzle |-> [stored EXCEPT !.program = added.program]]

\* Puzzle.finalize
Puzzle_finalize(pz) ==
    IF ~pz.finalized
    THEN [pz EXCEPT !.modules = [i \in 1..Len(@) |->
                                   [@[i] EXCEPT !.finalize_calls = @ + 1]],
                    !.finalized = TRUE]
    ELSE pz

\* Puzzle.render: [error, message, value, puzzle]
Puzzle_render(pz) ==
    LET finalized == Puzzle_finalize(pz)
        headed == [finalized EXCEPT !.program.header = pz.name \o " by ASPuzzle"]
        rendered == ASPProgram_render(headed.program)
    IN  [error |-> rendered.error, message |-> rendered.message,
         value |-> rendered.value, puzzle |-> headed]

\* Puzzle.solve up to the program text: the generator delegates to
\* ASPProgram.solve, whose first statement is asp_source = self.render()
Puzzle_solve_source(pz) ==
    LET rendered == ASPProgram_render(pz.program)
    IN  [error |-> rendered.error, message |-> rendered.message,
         value |-> rendered.value, puzzle |-> pz]

\* Puzzle.fact
Puzzle_fact(pz, predicates, segment) ==
    LET added == fact(pz.program, predicates, segment)
    IN  [error |-> added.error, message |-> added.message,
         puzzle |-> [pz EXCEPT !.program = added.program]]

(***************************************************************************)
(* SpecPuzzle: modules are registered, add facts, and the puzzle is        *)
(* finalized, rendered and solved in any order                             *)
(***************************************************************************)
MaxModules == 2
MaxFacts == 2

ModuleNames == {<<"g">>, <<"r">>, <<"s">>}

InitPuzzle ==
    /\ puzzle = Puzzle("Puzzle")
    /\ output = NotRendered
    /\ error = NoError
    /\ message = NoMessage
    /\ program = NoProgram
    /\ text = NotRendered
    /\ expr = None
    /\ subject = None
    /\ base = None
    /\ history = <<>>
    /\ rule_head = None
    /\ rule_body = <<>>
    /\ rule_object = None
    /\ instance_a = None
    /\ instance_b = None
    /\ compared = None
    /\ predicate_class = None
    /\ solver = None

\* the outcome of a call on the puzzle that produces no text
PuzzleCalled(r) ==
    /\ puzzle' = r.puzzle
    /\ error' = r.error
    /\ message' = r.message
    /\ output' = NotRendered
    /\ UNCHANGED <<program, exprVars, subject, negVars, ruleVars, eqVars, classVars, solveVars>>

\* the outcome of a call that produces the program text
PuzzleText(r) ==
    /\ puzzle' = r.puzzle
    /\ error' = r.error
    /\ message' = r.message
    /\ output' = r.value
    /\ UNCHANGED <<program, exprVars, subject, negVars, ruleVars, eqVars, classVars, solveVars>>

\* SomeModule(puzzle, name)
RegisterModule ==
    /\ Len(puzzle.modules) < MaxModules
    /\ \E name \in ModuleNames : PuzzleCalled(register_module(puzzle, Module(name)))

\* module.fact(p(1)), or puzzle.fact(p(1), segment=name) for any name
PuzzleFact ==
    /\ ElementCount(puzzle.program) < MaxFacts
    /\ \E name \in ModuleNames : PuzzleCalled(Puzzle_fact(puzzle, <<p_1>>, name))

\* puzzle.finalize()
PuzzleFinalize ==
    /\ puzzle # None
    /\ PuzzleCalled(PuzzleDone(Puzzle_finalize(puzzle)))

\* puzzle.render()
PuzzleRender ==
    /\ puzzle # None
    /\ PuzzleText(Puzzle_render(puzzle))

\* next(puzzle.solve()), as far as the program text
PuzzleSolve ==
    /\ puzzle # None
    /\ PuzzleText(Puzzle_solve_source(puzzle))

NextPuzzle == RegisterModule \/ PuzzleFact \/ PuzzleFinalize \/ PuzzleRender \/ PuzzleSolve

SpecPuzzle == InitPuzzle /\ [][NextPuzzle]_vars

\* C21: whenever render or solve produces the program text of a puzzle, the
\* finalize step of every registered module has run; and no sequence of
\* register_module, render, solve and finalize calls runs the finalize step
\* of a module more than once.
Claim_C21_FinalizedBeforeText ==
    [][/\ \A i \in 1..Len(puzzle'.modules) : puzzle'.modules[i].finalize_calls <= 1
       /\ ((PuzzleRender \/ PuzzleSolve) /\ output' # NotRendered)
          => \A i \in 1..Len(puzzle'.modules) : puzzle'.modules[i].finalize_calls = 1]_vars

(***************************************************************************)
(* clingo_handler.py: log levels and the message handler                   *)
(***************************************************************************)
DEBUG == 10
INFO == 20
WARNING == 30
ERROR == 40
CRITICAL == 50

LogLevels == {DEBUG, INFO, WARNING, ERROR, CRITICAL}

RuntimeError == "RuntimeError"

\* LogLevel.from_string; level_str is given by its characters
from_string(level_str) ==
    LET lowered == Text(lower(level_str))
    IN  IF lowered = "debug" THEN DEBUG
        ELSE IF lowered = "info" THEN INFO
        ELSE IF lowered = "warning" THEN WARNING
        ELSE IF lowered = "error" THEN ERROR
        ELSE IF lowered = "critical" THEN CRITICAL
        ELSE INFO

\* ClingoMessageHandler.__init__; _highest_level is None or an int
ClingoMessageHandler(stop_on_level) ==
    [messages |-> <<>>, stop_on_level |-> stop_on_level, _highest_level |-> None]

\* ClingoMessageHandler.on_message; an engine message is the level word the
\* regular expressions find in it, empty when neither matches
on_message(handler, engine_message) ==
    LET level == IF engine_message = <<>> THEN <<"i", "n", "f", "o">>
                 ELSE engine_message
        current_level == from_string(level)
    IN  [handler EXCEPT
           !.messages = Append(@, [severity |-> level]),
           !._highest_level =
               IF @ = None THEN IntLiteral(current_level)
               ELSE IF current_level > @.value THEN IntLiteral(current_level)
               ELSE @]

RECURSIVE on_messages(_, _)
\* the callback runs once for every message the engine logs
on_messages(handler, engine_messages) ==
    IF engine_messages = <<>> THEN handler
    ELSE on_messages(on_message(handler, Head(engine_messages)), Tail(engine_messages))

\* should_halt with a strict comparison
should_halt_Strict(handler) ==
    IF handler._highest_level = None THEN FALSE
    ELSE handler._highest_level.value > handler.stop_on_level

\* ClingoMessageHandler.should_halt
should_halt(handler) ==
    IF handler._highest_level = None THEN FALSE
    ELSE handler._highest_level.value >= handler.stop_on_level

(***************************************************************************)
(* solver.py: turning the symbols of an engine model into predicates.  A   *)
(* symbol is what clingo.Symbol exposes: its type and, by type, number,    *)
(* string, or name, arguments and sign.                                    *)
(***************************************************************************)
NumberSymbol(n) == [type |-> "Number", number |-> n]
StringSymbol(s) == [type |-> "String", string |-> s]
FunctionSymbol(name, arguments, positive) ==
    [type |-> "Function", name |-> name, arguments |-> arguments, positive |-> positive]
Supremum == [type |-> "Supremum"]

\* the least element of a non-empty set of numbers
Least(S) == CHOOSE n \in S : \A k \in S : n <= k

RECURSIVE _convert_symbol_to_predicate(_, _)
\* ASPProgram._convert_symbol_to_predicate; predicate_types is a function
\* from rendered names to schemas
_convert_symbol_to_predicate(symbol, predicate_types) ==
    LET pred_name == symbol.name
    IN  IF pred_name \notin DOMAIN predicate_types
        THEN Failure(ValueError, <<"Unknown predicate type: ", pred_name>>)
        ELSE
        LET pred_class == predicate_types[pred_name]
            field_names == pred_class.fields
            arguments == symbol.arguments
        IN  IF Len(arguments) # Len(field_names)
            THEN Failure(ValueError, <<"Arity mismatch for predicate ", pred_name>>)
            ELSE
            LET kwargs == [i \in 1..Len(arguments) |->
                    IF arguments[i].type = "Number"
                    THEN Success(Constant(arguments[i].number))
                    ELSE IF arguments[i].type = "String"
                    THEN Success(StringConstant(arguments[i].string))
                    ELSE IF arguments[i].type = "Function"
                    THEN _convert_symbol_to_predicate(arguments[i], predicate_types)
                    ELSE Failure(ValueError,
                                 <<"Unsupported symbol type in argument of ", pred_name>>)]
                failed == {i \in 1..Len(arguments) : kwargs[i].error # NoError}
            IN  IF failed # {} THEN kwargs[Least(failed)]
                ELSE LET instance == Predicate_post_init(
                                         pred_class,
                                         [i \in 1..Len(arguments) |-> kwargs[i].value])
                     IN  [error |-> instance.error, message |-> NoMessage,
                          value |-> instance.value]

\* result[name].append(instance) on a dict kept in insertion order
AppendInstance(result, name, instance) ==
    IF \E i \in 1..Len(result) : result[i].name = name
    THEN [i \in 1..Len(result) |->
            IF result[i].name = name
            THEN [result[i] EXCEPT !.instances = Append(@, instance)]
            ELSE result[i]]
    ELSE Append(result, [name |-> name, instances |-> <<instance>>])

RECURSIVE convert_symbols(_, _, _)
\* the loop of _convert_model_to_predicates over the shown symbols
convert_symbols(result, shown, predicate_types) ==
    IF shown = <<>> THEN Success(result)
    ELSE LET pred_instance == _convert_symbol_to_predicate(Head(shown), predicate_types)
         IN  IF pred_instance.error # NoError THEN pred_instance
             ELSE convert_symbols(AppendInstance(result,
                                                 get_name(pred_instance.value.schema),
                                                 pred_instance.value),
                                  Tail(shown), predicate_types)

\* ASPProgram._convert_model_to_predicates; the model is its shown symbols
_convert_model_to_predicates(model, predicate_types) ==
    convert_symbols(<<>>, model, predicate_types)

\* {pred.get_name(): pred for pred in self._collect_predicates()}: the
\* schemas come out of a set in no fixed order and a later one replaces an
\* earlier one of the same name, so every choice of one schema per name is
\* a table the comprehension can build
predicate_type_tables(prog) ==
    LET schemas == _collect_predicates(prog)
        names == {get_name(s) : s \in schemas}
    IN  {t \in [names -> schemas] : \A n \in names : get_name(t[n]) = n}

(***************************************************************************)
(* solver.py: ASPProgram.solve, a generator.  The engine is outside the    *)
(* program: the messages it logs, whether it rejects the text, how many    *)
(* models the program has and what each model shows are its choices.       *)
(***************************************************************************)
MaximumModels == 1000   \* models or 1000
MaxNext == 3            \* next() calls modelled one by one
MaxMessages == 2        \* messages the engine logs while parsing and grounding

\* the attributes a new ASPProgram has, and the state of its solve call
Solver(prog) ==
    [prog |-> prog, satisfiable |-> None, exhausted |-> None, solution_count |-> None,
     phase |-> "idle", models |-> 0, timeout |-> 0, stop_on_log_level |-> INFO,
     handler |-> None, predicate_types |-> None, limit |-> 0, total |-> 0,
     yielded |-> 0, model |-> <<>>, value |-> <<>>, abort |-> "none"]

\* solve(models, timeout, stop_on_log_level): a generator object is made and
\* no statement of the body has run
solve(s, models, timeout, stop_on_log_level) ==
    [s EXCEPT !.phase = "created", !.models = models, !.timeout = timeout,
              !.stop_on_log_level = stop_on_log_level]

\* control.configuration.solve.models
models_limit(models) == IF models # 0 THEN models ELSE MaximumModels

\* a raise statement of the body: the generator is finished
Abort(s, abort) == [s EXCEPT !.phase = "raised", !.abort = abort]

\* the body up to the check of the messages: how it ends, by the engine's
\* outcome for add and ground and the messages it logged
check_messages(s, outcome, engine_messages) ==
    LET message_handler == on_messages(ClingoMessageHandler(s.stop_on_log_level),
                                       engine_messages)
        started == [s EXCEPT !.handler = message_handler,
                             !.limit = models_limit(s.models)]
    IN  IF ASPProgram_render(s.prog).error # NoError THEN Abort(s, "render")
        ELSE IF outcome = "parse" THEN Abort(started, "parse")
        ELSE IF outcome = "ground" THEN Abort(started, "ground")
        ELSE IF message_handler.messages # <<>> /\ should_halt(message_handler)
             THEN Abort(started, "threshold")
        ELSE started

\* self.exhausted = False; self.solution_count = 0, after the table is built
begin_stream(s, predicate_types, total) ==
    [s EXCEPT !.predicate_types = predicate_types, !.total = total,
              !.exhausted = Bool(FALSE), !.solution_count = IntLiteral(0)]

\* the loop body with the counter left alone
count_model_NotCounted(s) ==
    [s EXCEPT !.satisfiable = Bool(TRUE)]

\* self.solution_count += 1; self.satisfiable = True
count_model(s) ==
    [s EXCEPT !.solution_count = IntLiteral(@.value + 1), !.satisfiable = Bool(TRUE)]

\* one turn of `for model in handle`: the model is counted, converted and
\* yielded, or the conversion raises
yield_model(s, model) ==
    LET counted == count_model(s)
        converted == _convert_model_to_predicates(model, s.predicate_types)
    IN  IF converted.error # NoError
        THEN [Abort(counted, "convert") EXCEPT !.model = model]
        ELSE [counted EXCEPT !.phase = "suspended", !.yielded = @ + 1,
                             !.model = model, !.value = converted.value]

\* result = handle.get() and the two assignments after the loop
finish(s, satisfiable, exhausted) ==
    [s EXCEPT !.phase = "done", !.satisfiable = satisfiable, !.exhausted = Bool(exhausted)]

\* what the engine can report as exhausted when the stream ends after
\* `found` models: the search space is exhausted only if every model was
\* found, and a search stopped by the model limit or by the timeout need
\* not have proved it
ExhaustedReports(s, found, interrupted) ==
    IF found < s.total \/ interrupted THEN {FALSE}
    ELSE IF found = s.limit THEN {FALSE, TRUE}
    ELSE {TRUE}

\* result.satisfiable: True with a model, False without one when the search
\* was exhausted, None (unknown) otherwise
SatisfiableReport(found, exhausted) ==
    IF found > 0 THEN Bool(TRUE) ELSE IF exhausted THEN Bool(FALSE) ELSE None

(***************************************************************************)
(* SpecSolve: one solve call on a program, consumed with next(), to its    *)
(* end, or abandoned                                                       *)
(***************************************************************************)
P2 == define(<<"p">>, <<"a", "b">>, "", TRUE).value
p_1_2 == Predicate(P2, <<Constant(1), Constant(2)>>)
q_p1_s == Predicate(Q, <<p_1, StringConstant("s")>>)

EmptyProgram == ASPProgram("", Rules)

SolvePrograms ==
    {fact(EmptyProgram, <<p_1>>, <<>>).program,
     fact(EmptyProgram, <<p_1, p_1_2>>, <<>>).program,
     fact(EmptyProgram, <<q_p1_s>>, <<>>).program,
     fact(EmptyProgram, <<p_c>>, <<>>).program}

ModelsArgs == {0, 1, 2}
TimeoutArgs == {0, 1}
StopLevels == {INFO, WARNING, ERROR}

EngineLevels == {<<"i", "n", "f", "o">>, <<"w", "a", "r", "n", "i", "n", "g">>,
                 <<"e", "r", "r", "o", "r">>, <<>>}
EngineMessages == UNION {[1..n -> EngineLevels] : n \in 0..MaxMessages}
EngineOutcomes == {"parse", "ground", "grounded"}

ModelCounts == {0, 1, 2, MaximumModels, MaximumModels + 1}

sym_p_1 == FunctionSymbol("p", <<NumberSymbol(1)>>, TRUE)
sym_p_1_2 == FunctionSymbol("p", <<NumberSymbol(1), NumberSymbol(2)>>, TRUE)
sym_q == FunctionSymbol("q", <<sym_p_1, StringSymbol("s")>>, TRUE)
sym_u == FunctionSymbol("u", <<NumberSymbol(1)>>, TRUE)
sym_p_sup == FunctionSymbol("p", <<Supremum>>, TRUE)

EngineModels ==
    {<<>>, <<sym_p_1>>, <<sym_p_1, sym_p_1_2>>, <<sym_q, sym_p_1>>, <<sym_u>>,
     <<sym_p_sup>>}

InitSolve ==
    /\ solver \in {Solver(prog) : prog \in SolvePrograms}
    /\ puzzle = None
    /\ output = NotRendered
    /\ error = NoError
    /\ message = NoMessage
    /\ program = NoProgram
    /\ text = NotRendered
    /\ expr = None
    /\ subject = None
    /\ base = None
    /\ history = <<>>
    /\ rule_head = None
    /\ rule_body = <<>>
    /\ rule_object = None
    /\ instance_a = None
    /\ instance_b = None
    /\ compared = None
    /\ predicate_class = None

SolveFrame ==
    UNCHANGED <<exprVars, termVars, negVars, progVars, ruleVars, eqVars, classVars,
                puzzleVars>>

\* gen = program.solve(models, timeout, stop_on_log_level)
Solve ==
    /\ solver.phase = "idle"
    /\ \E models \in ModelsArgs, timeout \in TimeoutArgs, level \in StopLevels :
          solver' = solve(solver, models, timeout, level)
    /\ SolveFrame

\* the interruptions the timeout allows before the next model
Interruptions(s) == IF s.timeout > 0 THEN {FALSE, TRUE} ELSE {FALSE}

\* the generator runs from where it is to its next yield, its end or a raise
RunToYield(s) ==
    \E interrupted \in Interruptions(s) :
       IF ~interrupted /\ s.yielded < s.total /\ s.yielded < s.limit
       THEN \E model \in EngineModels : solver' = yield_model(s, model)
       ELSE \E exhausted \in ExhaustedReports(s, s.yielded, interrupted) :
               solver' = finish(s, SatisfiableReport(s.yielded, exhausted), exhausted)

\* the first next(gen): the body runs from its first statement
Start ==
    /\ solver.phase = "created"
    /\ \E outcome \in EngineOutcomes, engine_messages \in EngineMessages :
          LET checked == check_messages(solver, outcome, engine_messages)
          IN  IF checked.phase = "raised" THEN solver' = checked
              ELSE \E predicate_types \in predicate_type_tables(solver.prog),
                      total \in ModelCounts :
                      RunToYield(begin_stream(checked, predicate_types, total))
    /\ SolveFrame

\* a later next(gen)
Resume ==
    /\ solver.phase = "suspended"
    /\ solver.yielded < MaxNext
    /\ RunToYield(solver)
    /\ SolveFrame

\* for _ in gen: pass, with an engine that is not interrupted and whose
\* remaining models all show the same symbols
Drain ==
    /\ solver.phase = "suspended"
    /\ \E model \in EngineModels :
          LET found == IF solver.total < solver.limit THEN solver.total ELSE solver.limit
              converted == _convert_model_to_predicates(model, solver.predicate_types)
          IN  IF found > solver.yielded /\ converted.error # NoError
              THEN solver' = yield_model(solver, model)
              ELSE \E exhausted \in ExhaustedReports(solver, found, FALSE) :
                      solver' = finish([solver EXCEPT !.yielded = found,
                                                      !.solution_count = IntLiteral(found),
                                                      !.satisfiable = Bool(TRUE),
                                                      !.model = IF found > solver.yielded
                                                                THEN model ELSE @,
                                                      !.value = IF found > solver.yielded
                                                                THEN converted.value ELSE @],
                                       SatisfiableReport(found, exhausted), exhausted)
    /\ SolveFrame

\* the caller stops early: gen.close(), or the generator is dropped
Close ==
    /\ solver.phase = "suspended"
    /\ solver' = [solver EXCEPT !.phase = "closed"]
    /\ SolveFrame

NextSolve == Solve \/ Start \/ Resume \/ Drain \/ Close

SpecSolve == InitSolve /\ [][NextSolve]_vars

\* the levels of the messages the handler captured
CapturedLevels(handler) ==
    {from_string(handler.messages[i].severity) : i \in 1..Len(handler.messages)}

\* the engine took the text and grounded it, and the messages were checked
MessagesChecked ==
    /\ solver.phase \notin {"idle", "created"}
    /\ solver.abort \notin {"render", "parse", "ground"}

Wit_C22_BelowThresholdStreams ==
    /\ solver.phase = "suspended"
    /\ solver.yielded = 1
    /\ CapturedLevels(solver.handler) = {INFO, WARNING}
    /\ solver.stop_on_log_level = ERROR

\* C23: while the stream is being consumed, and after a caller has stopped
\* early, solution_count is the number of models yielded so far and
\* exhausted is False; exhausted is true only once the stream has been
\* consumed to its end.
Thm_C23_CountersTrackTheStream ==
    /\ solver.phase \in {"suspended", "closed"}
          => /\ solver.solution_count = IntLiteral(solver.yielded)
             /\ solver.exhausted = Bool(FALSE)
             /\ solver.satisfiable = Bool(TRUE)
    /\ solver.exhausted = Bool(TRUE) => solver.phase = "done"

Wit_C23_StoppedEarly ==
    /\ solver.phase = "closed"
    /\ solver.yielded = 2
    /\ solver.total > 2
    /\ solver.limit > 2

Wit_C23_ConsumedToTheEnd ==
    /\ solver.phase = "done"
    /\ solver.yielded = 2
    /\ solver.exhausted = Bool(TRUE)

RECURSIVE MatchesSchema(_, _)
\* the symbol, and every symbol nested in it, has the name and the arity of
\* one of the schemas
MatchesSchema(symbol, schemas) ==
    /\ symbol.type = "Function"
    /\ \E schema \in schemas :
          /\ get_name(schema) = symbol.name
          /\ Len(schema.fields) = Len(symbol.arguments)
    /\ \A i \in 1..Len(symbol.arguments) :
          \/ symbol.arguments[i].type \in {"Number", "String"}
          \/ MatchesSchema(symbol.arguments[i], schemas)

\* a model reached the conversion
ModelConverted == solver.phase = "suspended" \/ solver.abort = "convert"

\* C24: a model whose shown symbols all have the name and arity of a schema
\* referenced in the program is converted without an error, into a map that
\* holds one instance per symbol under the rendered name of its schema.
Claim_C24_MatchingSymbolsReconstructed ==
    (/\ ModelConverted
     /\ \A i \in 1..Len(solver.model) :
           MatchesSchema(solver.model[i], _collect_predicates(solver.prog)))
    => /\ solver.abort # "convert"
       /\ \A i \in 1..Len(solver.model) :
             \E k \in 1..Len(solver.value) :
                /\ solver.value[k].name = solver.model[i].name
                /\ \E instance \in Range(solver.value[k].instances) :
                      /\ get_name(instance.schema) = solver.model[i].name
                      /\ Len(instance.arguments) = Len(solver.model[i].arguments)

\* C28: a solve(models=0) without timeout that has run to its end has
\* yielded every model of the program, and exhausted is True.
Claim_C28_ZeroMeansAllModels ==
    (solver.phase = "done" /\ solver.models = 0 /\ solver.timeout = 0)
    => /\ solver.yielded = solver.total
       /\ solver.exhausted = Bool(TRUE)

(***************************************************************************)
(* SpecShared: a Choice or an Aggregate is an object with a list of        *)
(* elements and, for a Choice, two bounds; add and the bound setters       *)
(* change the object and return it.  Rule.__init__ stores the terms it is  *)
(* given, so a rule built from the object holds the object itself.         *)
(* subject is the object, rule_object the rule built from it, base the     *)
(* value the object had when the rule was built and text what the rule     *)
(* rendered as then.                                                       *)
(***************************************************************************)
\* stands in a stored rule for the object held in subject
SharedObject == [kind |-> "SharedObject"]

\* the rule as Rule.__init__ stores it: the object is held, not copied
Share(element, object) ==
    [element EXCEPT
       !.head = IF @ = object THEN SharedObject ELSE @,
       !.body = [i \in 1..Len(@) |->
                   IF @[i].kind = "Comparison" /\ @[i].right_term = object
                   THEN [@[i] EXCEPT !.right_term = SharedObject]
                   ELSE @[i]]]

\* the rule as its methods see it: through the object's present value
Resolve(element, object) ==
    [element EXCEPT
       !.head = IF @ = SharedObject THEN object ELSE @,
       !.body = [i \in 1..Len(@) |->
                   IF @[i].kind = "Comparison" /\ @[i].right_term = SharedObject
                   THEN [@[i] EXCEPT !.right_term = object]
                   ELSE @[i]]]

\* Rule(head=choice, body=[]) as when([], let=choice) builds it, or
\* Rule(head=p(X), body=[X = aggregate])
RuleAround(object) ==
    IF object.kind = "Choice" THEN Rule_init(object, <<>>)
    ELSE Rule_init(p_X, <<Comparison_init(Variable("X"), EQUAL, object).value>>)

AddedElements == {p_1, p_X}
BoundArgs == {IntLiteral(1), IntLiteral(2)}

InitShared ==
    /\ subject = None
    /\ rule_object = None
    /\ base = None
    /\ text = NotRendered
    /\ output = NotRendered
    /\ error = NoError
    /\ message = NoMessage
    /\ rule_head = None
    /\ rule_body = <<>>
    /\ expr = None
    /\ history = <<>>
    /\ program = NoProgram
    /\ instance_a = None
    /\ instance_b = None
    /\ compared = None
    /\ predicate_class = None
    /\ puzzle = None
    /\ solver = None

SharedFrame ==
    UNCHANGED <<expr, history, program, message, rule_head, rule_body, eqVars, classVars,
                puzzleVars, solveVars>>

\* c = Choice(p(1))
NewChoice ==
    /\ subject = None
    /\ subject' = Choice_init(p_1, <<>>).value
    /\ error' = NoError
    /\ UNCHANGED <<rule_object, base, text, output>>
    /\ SharedFrame

\* a = Count(p(1))
NewAggregate ==
    /\ subject = None
    /\ subject' = Aggregate_init("#count", <<p_1>>, <<>>).value
    /\ error' = NoError
    /\ UNCHANGED <<rule_object, base, text, output>>
    /\ SharedFrame

\* a rule is built from the object, as fact, when and forbid do
UseInRule ==
    /\ subject # None
    /\ rule_object = None
    /\ RuleAround(subject).error = NoError
    /\ rule_object' = Share(RuleAround(subject).value, subject)
    /\ text' = Element_render(RuleAround(subject).value)
    /\ base' = subject
    /\ error' = NoError
    /\ UNCHANGED <<subject, output>>
    /\ SharedFrame

\* the object after a call that returns self, or unchanged when it raises
InPlace(result) ==
    /\ subject' = IF result.error = NoError THEN result.value ELSE subject
    /\ error' = result.error
    /\ UNCHANGED <<rule_object, base, text, output>>
    /\ SharedFrame

\* c.add(element) or a.add(element)
AddElement ==
    /\ subject # None
    /\ Len(subject.elements) <= MaxElements
    /\ \E element \in AddedElements :
          InPlace(IF subject.kind = "Choice" THEN Choice_add(subject, element, <<>>)
                  ELSE Aggregate_add(subject, <<element>>, <<>>))

\* c.exactly(n), c.at_least(n), c.at_most(n)
SetBound ==
    /\ subject # None
    /\ subject.kind = "Choice"
    /\ \E count \in BoundArgs :
          \/ InPlace(exactly(subject, count))
          \/ InPlace(at_least(subject, count))
          \/ InPlace(at_most(subject, count))

\* rule.render(), as ASPProgram.render calls it for each rule it holds
RenderShared ==
    /\ rule_object # None
    /\ output' = Element_render(Resolve(rule_object, subject))
    /\ UNCHANGED <<subject, error, rule_object, base, text>>
    /\ SharedFrame

NextShared == NewChoice \/ NewAggregate \/ UseInRule \/ AddElement \/ SetBound \/ RenderShared

SpecShared == InitShared /\ [][NextShared]_vars

\* C25: once a Choice or an Aggregate has been used to build a rule, no
\* later add, exactly, at_least or at_most changes what the term renders
\* as, whether it is grounded, or what the rule that holds it renders as.
Claim_C25_TermsImmutableOnceUsed ==
    rule_object # None
    => /\ render(subject, NoneOp, FALSE) = render(base, NoneOp, FALSE)
       /\ is_grounded(subject) = is_grounded(base)
       /\ Element_render(Resolve(rule_object, subject)) = text

\* C26: on a predicate instance p, -p is a ClassicalNegation whose term is
\* p, and ~p is a DefaultNegation whose term is p.
Claim_C26_NegationOperators ==
    [][/\ ApplyMinusOperator
          => (subject'.kind = "ClassicalNegation" /\ subject'.term = subject)
       /\ ApplyInvertOperator
          => (subject'.kind = "DefaultNegation" /\ subject'.term = subject)]_vars

IsAbs(t) == t.kind = "Expression" /\ t.operator = ABS
IsUnaryMinus(t) == t.kind = "Expression" /\ t.operator = UNARY_MINUS
\* `|e|` with e as it renders on its own
AbsBars(t) == <<"|">> \o Bare(t.second_term) \o <<"|">>
\* an absolute value is the expression, its operand under a unary minus, or
\* an operand of the binary operation
AbsAtTop ==
    \/ IsAbs(expr)
    \/ IsUnaryMinus(expr) /\ IsAbs(expr.second_term)
    \/ IsBinary(expr) /\ (IsAbs(expr.first_term) \/ IsAbs(expr.second_term))
\* the text of the binary expression with its absolute-value operands
\* written as `|e|`
BinaryWithBars ==
    Infix(IF IsAbs(expr.first_term) THEN AbsBars(expr.first_term) ELSE LeftOperand,
          expr.operator,
          IF IsAbs(expr.second_term) THEN AbsBars(expr.second_term) ELSE RightOperand)

\* C27 as stated: an absolute value renders as `|e|` without outer
\* parentheses, except as the operand of a unary minus, where it is
\* parenthesized: -Abs(e) renders `-(|e|)`.
Claim_C27_AbsParenthesizedUnderMinus ==
    Rendered =>
       /\ IsAbs(expr) => text = AbsBars(expr)
       /\ (IsBinary(expr) /\ AbsAtTop) => text = BinaryWithBars
       /\ (IsUnaryMinus(expr) /\ IsAbs(expr.second_term))
             => text = <<"-", "(">> \o AbsBars(expr.second_term) \o <<")">>

\* C27 amended: an absolute value renders as `|e|` without outer
\* parentheses in every context, the operand of a unary minus included:
\* -Abs(e) renders `-|e|`.
Thm_C27_AbsNeverParenthesized ==
    Rendered =>
       /\ IsAbs(expr) => text = AbsBars(expr)
       /\ (IsBinary(expr) /\ AbsAtTop) => text = BinaryWithBars
       /\ (IsUnaryMinus(expr) /\ IsAbs(expr.second_term))
             => text = <<"-">> \o AbsBars(expr.second_term)

Wit_C27_MinusAbs ==
    /\ Rendered
    /\ IsUnaryMinus(expr)
    /\ IsAbs(expr.second_term)
    /\ IsBinary(expr.second_term.second_term)

Wit_C27_AbsRightOfSubtraction ==
    /\ Rendered
    /\ IsBinary(expr)
    /\ expr.operator = SUBTRACT
    /\ IsAbs(expr.second_term)

\* C29: the class that with_namespace(ns) returns for a schema with
\* rendered name n has the fields of that schema and the rendered name
\* ns_n, the prefix applied once.
Claim_C29_NamespacePrefixedOnce ==
    (base # None /\ text # NotRendered) =>
        /\ predicate_class.fields = base.fields
        /\ Text(text) = predicate_class.namespace \o "_" \o get_name(base)

\* C30: every rule a program holds has a head or a non-empty body, so no
\* sequence of fact, when and forbid calls, forbid() without conditions
\* included, makes the program hold an element that renders as the bare
\* line `.`.
Claim_C30_NoEmptyRule ==
    program # NoProgram =>
       \A e \in Range(AllElements(program)) :
          e.kind = "Rule" => /\ (e.head # None \/ e.body # <<>>)
                             /\ Element_render(e) # <<".">>

====
